---- MODULE Spec2Model ----
(***************************************************************************)
(* Model of the upload page (src/unnamed/part_000): the schema merge       *)
(* engine (mergeSchemas), the job submission orchestrator (submitAll,      *)
(* pollResultWithDelays) and the two effects that keep the schema text and *)
(* the edit model in sync.                                                 *)
(*                                                                         *)
(* Specifications:                                                         *)
(*   SpecMerge  the environment builds an input of mergeSchemas token by   *)
(*              token; mMerged is mergeSchemas of the input built so far.  *)
(*   Spec       the upload page: file picking, submitAll on its three      *)
(*              paths, the concurrent uploads, the polling loop, and the   *)
(*              schemaText / schema effects.                               *)
(* Each specification holds the variables of the other at their initial    *)
(* values.                                                                 *)
(***************************************************************************)
EXTENDS Integers, Sequences, FiniteSets, TLC

VARIABLES
  mInput,    \* SpecMerge: the argument of mergeSchemas
  mMerged    \* SpecMerge: mergeSchemas(mInput)

mergeVars == <<mInput, mMerged>>

VARIABLES
  \* React state of UploadPage (lines 111-118)
  items,           \* sequence of [id, file, status, message]
  submitting,
  schemaText,      \* a text: Raw(s) or JsonText(v, pretty)
  schema,          \* Null or the normalized schema
  parseError,      \* NoError or a message
  selectedEntity,  \* index from 0, as in the code
  \* effects whose dependency changed in a committed render and that have not run yet
  textEffect,      \* the effect on [schemaText], lines 124-166
  schemaEffect,    \* the effect on [schema], lines 457-465
  \* the running call of submitAll (lines 257-331)
  pc,              \* "idle", "detect", "scim", "soap", "upload", "wait", "poll"
  batch,           \* the items captured by the call's closure (id and file)
  upload,          \* per batch position: "fetch", "json", "accepted" or "failed"
  pollI,           \* the loop variable i of pollResultWithDelays
  kind,            \* what detectUploadKind answered ("none" before that)
  \* history of the running (or last) call
  waits,           \* waits of the schedule that have elapsed
  polls,           \* polls issued
  resps,           \* the kinds of the poll responses received, in order
  out,             \* what pollResultWithDelays returned (NoOut before that)
  outcome          \* "none", "running", "returned", "threw"

VARIABLES
  \* the schema editing handlers (lines 360-453)
  edits,     \* text changes and handler calls so far
  op,        \* the last handler call: its name, arguments and how it ended
  before,    \* the value of schema when that call started
  held       \* what the object that was schema then holds now

pageVars == <<items, submitting, schemaText, schema, parseError, selectedEntity,
              textEffect, schemaEffect>>
callVars == <<pc, batch, upload, pollI, kind, waits, polls, resps, out, outcome>>
editVars == <<edits, op, before, held>>

VARIABLES
  sFiles,    \* SpecScim: the argument of readScimDocs
  sDocs,     \* SpecScim: what readScimDocs(sFiles) returns
  \* SpecId: a call of id30Base62 (lines 94-107)
  idSrc,     \* the bytes the random source delivers, as a repeating pattern
  idFills,   \* calls of crypto.getRandomValues so far
  idBuf,     \* buf
  idI,       \* the loop variable i
  idOut,     \* out
  idPc       \* "idle", "while", "for" or "returned"

scimVars == <<sFiles, sDocs>>
idVars == <<idSrc, idFills, idBuf, idI, idOut, idPc>>

VARIABLES
  \* SpecHook: app/webhooks_openai/route.ts
  store,     \* the Map of line 13: for each responseId its record or Undefined
  handled,   \* requests the route has answered so far
  answer,    \* the last answer of the route: which handler, for which id, status
  served     \* the responseIds for which a GET has answered 200


VARIABLES
  \* SpecChat: app/web_dev_chatbot/page.tsx and the poll route it calls
  messages,       \* the message list
  loading,
  error,
  hpc,            \* where the call of handleSubmit stands: "idle", "sending", "polling"
  placeholderId,  \* placeholderId of that call
  tries,          \* polls of that call that came back pending
  resets,         \* callbacks of clearChat's setTimeout that are still to run
  uuids,          \* calls of crypto.randomUUID() so far
  submits,        \* calls of handleSubmit that got past line 121
  clears,         \* calls of clearChat
  poll            \* the last poll: the upstream answer, the route's, pollBackend's

hookVars == <<store, handled, answer, served>>
chatVars == <<messages, loading, error, hpc, placeholderId, tries, resets, uuids,
              submits, clears, poll>>
apiVars == <<hookVars, chatVars>>
funVars == <<scimVars, idVars, apiVars>>
vars == <<mergeVars, pageVars, callVars, editVars, funVars>>

(***************************************************************************)
(* JSON values.  Every value is a record with a field k, so that values    *)
(* of different shapes compare without error:                              *)
(*   [k |-> "null"]                         null / a non-object            *)
(*   [k |-> "other"]                        an object without entities[]   *)
(*   [k |-> "attr", name, type, MultiValue, IsKey]                         *)
(*   [k |-> "ent", name, attributes]        attributes a sequence          *)
(*   [k |-> "schema", name, version, entities]                             *)
(*   [k |-> "array", items]                 a top-level array              *)
(*   [k |-> "TypeError"]                    the call threw                 *)
(***************************************************************************)
Null == [k |-> "null"]
Other == [k |-> "other"]
TypeError == [k |-> "TypeError"]

Attr(n, t, mv, key) ==
  [k |-> "attr", name |-> n, type |-> t, MultiValue |-> mv, IsKey |-> key]
Ent(n, as) == [k |-> "ent", name |-> n, attributes |-> as]
SchemaDoc(n, v, es) == [k |-> "schema", name |-> n, version |-> v, entities |-> es]
Arr(xs) == [k |-> "array", items |-> xs]

\* isEnt: x && typeof x.name === "string" && Array.isArray(x.attributes)
isEnt(x) == x.k = "ent"

\* isSchema: x && Array.isArray(x.entities)
isSchema(x) == x.k = "schema"

RECURSIVE FilterSeq(_, _)
FilterSeq(xs, i) ==
  IF i > Len(xs) THEN <<>>
  ELSE (IF isSchema(xs[i]) THEN <<xs[i]>> ELSE <<>>) \o FilterSeq(xs, i + 1)

\* docs = Array.isArray(input) ? input.filter(isSchema) : isSchema(input) ? [input] : []
DocsOf(input) ==
  IF input.k = "array" THEN FilterSeq(input.items, 1)
  ELSE IF isSchema(input) THEN <<input>> ELSE <<>>

\* docs.find(d => d.name)?.name ?? "Connector": the first truthy name
RECURSIVE FirstName(_, _)
FirstName(docs, i) ==
  IF i > Len(docs) THEN "Connector"
  ELSE IF docs[i].name # "" THEN docs[i].name ELSE FirstName(docs, i + 1)

RECURSIVE FirstVersion(_, _)
FirstVersion(docs, i) ==
  IF i > Len(docs) THEN "1.0.0"
  ELSE IF docs[i].version # "" THEN docs[i].version ELSE FirstVersion(docs, i + 1)

\* byName.get(e.name): the position of the entity of that name, 0 when absent
RECURSIVE ByNameGet(_, _, _)
ByNameGet(ents, n, i) ==
  IF i > Len(ents) THEN 0
  ELSE IF ents[i].name = n THEN i ELSE ByNameGet(ents, n, i + 1)

AttrNames(as) == {as[i].name : i \in 1..Len(as)}

RECURSIVE PushNewAttrsLastWins(_, _, _)
PushNewAttrsLastWins(target, as, i) ==
  IF i > Len(as) THEN target
  ELSE LET a == as[i]
       IN IF a.k = "attr" /\ a.name # ""
          THEN IF a.name \notin AttrNames(target)
               THEN PushNewAttrsLastWins(Append(target, a), as, i + 1)
               ELSE PushNewAttrsLastWins(
                      [j \in 1..Len(target) |->
                         IF target[j].name = a.name THEN a ELSE target[j]], as, i + 1)
          ELSE PushNewAttrsLastWins(target, as, i + 1)

RECURSIVE PushNewAttrsFront(_, _, _)
PushNewAttrsFront(target, as, i) ==
  IF i > Len(as) THEN target
  ELSE LET a == as[i]
       IN IF a.k = "attr" /\ a.name # "" /\ a.name \notin AttrNames(target)
          THEN PushNewAttrsFront(<<a>> \o target, as, i + 1)
          ELSE PushNewAttrsFront(target, as, i + 1)

\* the loop of lines 70-75: push each attribute whose name is truthy and new
RECURSIVE PushNewAttrs(_, _, _)
PushNewAttrs(target, as, i) ==
  IF i > Len(as) THEN target
  ELSE LET a == as[i]
       IN IF a.k = "attr" /\ a.name # "" /\ a.name \notin AttrNames(target)
          THEN PushNewAttrs(Append(target, a), as, i + 1)
          ELSE PushNewAttrs(target, as, i + 1)

\* one iteration of the inner loop, lines 57-76; acc is the Map's values in
\* insertion order ([k |-> "acc", ents]), or TypeError once an iteration has thrown
MergeEntity(acc, e) ==
  IF acc.k = "TypeError" THEN acc
  ELSE IF ~isEnt(e) THEN acc
  ELSE LET idx == ByNameGet(acc.ents, e.name, 1)
       IN IF idx = 0
          THEN [acc EXCEPT !.ents = Append(@, Ent(e.name, e.attributes))]
          ELSE LET target == acc.ents[idx].attributes
               IN \* target.attributes.map(a => a.name) throws on a null element
                  IF \E j \in 1..Len(target) : target[j].k # "attr"
                  THEN TypeError
                  ELSE [acc EXCEPT !.ents[idx].attributes =
                                      PushNewAttrs(target, e.attributes, 1)]

RECURSIVE MergeEntities(_, _, _)
MergeEntities(acc, es, i) ==
  IF i > Len(es) THEN acc
  ELSE MergeEntities(MergeEntity(acc, es[i]), es, i + 1)

RECURSIVE MergeDocs(_, _, _)
MergeDocs(acc, docs, i) ==
  IF i > Len(docs) THEN acc
  ELSE MergeDocs(MergeEntities(acc, docs[i].entities, 1), docs, i + 1)

mergeSchemas(input) ==
  LET docs == DocsOf(input)
      acc == MergeDocs([k |-> "acc", ents |-> <<>>], docs, 1)
  IN IF acc.k = "TypeError" THEN TypeError
     ELSE SchemaDoc(FirstName(docs, 1), FirstVersion(docs, 1), acc.ents)

(***************************************************************************)
(* SpecMerge: inputs of mergeSchemas.                                      *)
(***************************************************************************)
MaxInputSize == 6

EntityNames == {"User", "Group"}
AttrPool ==
  { Attr("id", "String", FALSE, TRUE), Attr("id", "Int", FALSE, FALSE),
    Attr("email", "String", FALSE, FALSE), Null }
DocHeaders == { <<"", "">>, <<"HR", "2.0">> }

RECURSIVE SumSizes(_, _)
SizeOf(x) ==
  IF x.k = "array" THEN SumSizes(x.items, 1)
  ELSE IF x.k = "schema" THEN 1 + SumSizes(x.entities, 1)
  ELSE IF x.k = "ent" THEN 1 + Len(x.attributes)
  ELSE 1
SumSizes(xs, i) == IF i > Len(xs) THEN 0 ELSE SizeOf(xs[i]) + SumSizes(xs, i + 1)

MergeInit ==
  /\ mInput = Arr(<<>>)
  /\ mMerged = mergeSchemas(Arr(<<>>))

MCanGrow == mInput.k = "array" /\ SizeOf(mInput) < MaxInputSize
MLastDoc == mInput.items[Len(mInput.items)]
MHasDoc == Len(mInput.items) > 0 /\ isSchema(MLastDoc)
MLastEnt == MLastDoc.entities[Len(MLastDoc.entities)]
MHasEnt == MHasDoc /\ Len(MLastDoc.entities) > 0 /\ isEnt(MLastEnt)

MSet(input) ==
  /\ mInput' = input
  /\ mMerged' = mergeSchemas(input)
  /\ UNCHANGED <<pageVars, callVars, editVars, funVars>>

\* a further element of the input array: a schema document or something else
MAddDoc ==
  /\ MCanGrow
  /\ \E h \in DocHeaders : MSet(Arr(Append(mInput.items, SchemaDoc(h[1], h[2], <<>>))))

MAddOther ==
  /\ MCanGrow
  /\ MSet(Arr(Append(mInput.items, Other)))

\* a further element of the last document's entities: an entity or null
MAddEntity ==
  /\ MCanGrow /\ MHasDoc
  /\ \E e \in {Ent(n, <<>>) : n \in EntityNames} \cup {Null} :
       MSet(Arr([mInput.items EXCEPT ![Len(mInput.items)].entities = Append(@, e)]))

\* a further element of the last entity's attributes: an attribute or null
MAddAttr ==
  /\ MCanGrow /\ MHasEnt
  /\ \E a \in AttrPool :
       MSet(Arr([mInput.items EXCEPT
                   ![Len(mInput.items)].entities[Len(MLastDoc.entities)].attributes =
                      Append(@, a)]))

\* the caller passes the one document itself instead of an array holding it
MPassSingle ==
  /\ mInput.k = "array" /\ Len(mInput.items) = 1
  /\ MSet(mInput.items[1])

MergeNext == MAddDoc \/ MAddOther \/ MAddEntity \/ MAddAttr \/ MPassSingle

(***************************************************************************)
(* Texts.  Raw(s) is a text that is not JSON (s = "" is the empty text);   *)
(* JsonText(v, pretty) is a JSON text of the value v, pretty when it is    *)
(* the output of JSON.stringify(v, ..., 2).                                *)
(***************************************************************************)
Raw(s) == [k |-> "raw", s |-> s]
JsonText(v, pretty) == [k |-> "json", v |-> v, pretty |-> pretty]
SyntaxError == [k |-> "SyntaxError"]

IsString(x) == x.k \in {"raw", "json"}

\* text.trim(): of the texts of the model, the blank one becomes empty
BlankText == Raw("  ")
trim(text) == IF text = BlankText THEN Raw("") ELSE text

\* JSON.parse(text); text that is empty, blank or broken is no JSON
JSONparse(text) == IF text.k = "json" THEN text.v ELSE SyntaxError

\* JSON.stringify(v, null, 2)
JSONstringify(v) == JsonText(v, TRUE)

(***************************************************************************)
(* The schemaText effect (lines 124-166) and the schema effect (457-465).  *)
(***************************************************************************)
NoError == "null"

NormAttrOlderFirst(a) ==
  LET val == IF "isKey" \in DOMAIN a THEN a.isKey = TRUE
             ELSE IF "IsKey" \in DOMAIN a THEN a.IsKey = TRUE
             ELSE FALSE
      keep == ((DOMAIN a) \cup {"IsKey", "k"}) \ {"isKey", "iskey"}
  IN [f \in keep |-> IF f = "IsKey" THEN val
                     ELSE IF f = "k" THEN "attr"
                     ELSE a[f]]

\* lines 138-155: one attribute of the loaded document; {...a} of null is {}
NormAttr(a) ==
  LET val == IF "IsKey" \in DOMAIN a THEN a.IsKey = TRUE
             ELSE IF "isKey" \in DOMAIN a THEN a.isKey = TRUE
             ELSE FALSE
      keep == ((DOMAIN a) \cup {"IsKey", "k"}) \ {"isKey", "iskey"}
  IN [f \in keep |-> IF f = "IsKey" THEN val
                     ELSE IF f = "k" THEN "attr"
                     ELSE a[f]]

NormAttrs(as) == [i \in 1..Len(as) |-> NormAttr(as[i])]

\* lines 136-157: e.attributes of null throws; a missing attributes is []
NormEntity(e) ==
  IF e.k = "null" THEN TypeError
  ELSE IF "attributes" \in DOMAIN e
       THEN [e EXCEPT !.attributes = NormAttrs(@)]
       ELSE [f \in (DOMAIN e) \cup {"attributes"} |->
               IF f = "attributes" THEN <<>> ELSE e[f]]

\* lines 131-158: the normalized document, or the error the try block raises
Normalize(text) ==
  LET obj == JSONparse(text)
  IN IF obj = SyntaxError THEN SyntaxError
     ELSE IF ~isSchema(obj) THEN [k |-> "Error", message |-> "Missing entities[]"]
     ELSE IF \E i \in 1..Len(obj.entities) : NormEntity(obj.entities[i]) = TypeError
          THEN TypeError
          ELSE [obj EXCEPT !.entities = [i \in 1..Len(@) |-> NormEntity(@[i])]]

ErrorMessageNone(err) == NoError

\* e?.message || "Invalid JSON"
ErrorMessage(err) ==
  IF err.k = "Error" THEN err.message
  ELSE IF err.k = "SyntaxError" THEN "Unexpected token"
  ELSE "Cannot read properties of null"

\* the replacer of lines 459-463 drops every isKey key
StripAttr(a) == [f \in (DOMAIN a) \ {"isKey"} |-> a[f]]
StripEntity(e) == [e EXCEPT !.attributes = [i \in 1..Len(@) |-> StripAttr(@[i])]]
SchemaToText(sch) ==
  JSONstringify([sch EXCEPT !.entities = [i \in 1..Len(@) |-> StripEntity(@[i])]])

\* setSchemaText(t): the effect on [schemaText] is due when the text changed
SetSchemaText(t) ==
  /\ schemaText' = t
  /\ textEffect' = (textEffect \/ t # schemaText)

\* lines 124-166
RunSchemaTextEffect ==
  /\ textEffect /\ ~schemaEffect
  /\ textEffect' = FALSE
  /\ IF trim(schemaText) = Raw("")
     THEN /\ schema' = Null
          /\ parseError' = NoError
          /\ schemaEffect' = (schemaEffect \/ schema # Null)
          /\ UNCHANGED selectedEntity
     ELSE LET norm == Normalize(schemaText)
          IN IF norm.k # "schema"
             THEN /\ parseError' = ErrorMessage(norm)
                  /\ UNCHANGED <<schema, schemaEffect, selectedEntity>>
             ELSE /\ schema' = norm
                  /\ parseError' = NoError
                  /\ schemaEffect' = TRUE
                  /\ selectedEntity' =
                       IF selectedEntity >= Len(norm.entities) THEN 0 ELSE selectedEntity
  /\ UNCHANGED <<items, submitting, schemaText, callVars, mergeVars, editVars, funVars>>

\* what the effect of lines 124-166 sets when it runs on the committed text
TextEffectSets ==
  IF trim(schemaText) = Raw("")
  THEN [set |-> schema # Null, schema |-> Null, parseError |-> NoError,
        selected |-> selectedEntity]
  ELSE LET norm == Normalize(schemaText)
       IN IF norm.k # "schema"
          THEN [set |-> FALSE, schema |-> schema, parseError |-> ErrorMessage(norm),
                selected |-> selectedEntity]
          ELSE [set |-> TRUE, schema |-> norm, parseError |-> NoError,
                selected |-> IF selectedEntity >= Len(norm.entities)
                             THEN 0 ELSE selectedEntity]

\* a commit that changed the text and the model: both effects run, in the
\* order of lines 124 and 457, each on the values of the committed render
RunBothEffects ==
  /\ textEffect /\ schemaEffect
  /\ schema' = TextEffectSets.schema
  /\ parseError' = TextEffectSets.parseError
  /\ selectedEntity' = TextEffectSets.selected
  /\ schemaEffect' = TextEffectSets.set
  /\ schemaText' = IF schema = Null THEN schemaText ELSE SchemaToText(schema)
  /\ textEffect' = (schemaText' # schemaText)
  /\ UNCHANGED <<items, submitting, callVars, mergeVars, editVars, funVars>>

\* lines 457-465; it runs after the schemaText effect when both are due
RunSchemaEffect ==
  /\ schemaEffect /\ ~textEffect
  /\ schemaEffect' = FALSE
  /\ IF schema = Null
     THEN UNCHANGED <<schemaText, textEffect>>
     ELSE /\ schemaText' = SchemaToText(schema)
          /\ textEffect' = (schemaText' # schemaText)
  /\ UNCHANGED <<items, submitting, schema, parseError, selectedEntity,
                 callVars, mergeVars, editVars, funVars>>

\* an event handler or a continuation runs on a page whose effects have run
EffectsDone == ~textEffect /\ ~schemaEffect

(***************************************************************************)
(* The item list (lines 173-193).                                          *)
(***************************************************************************)
\* the files the user can pick, each standing for one name-size key
Files == {1, 2}
NoMessage == "undefined"
NoOut == [k |-> "none"]

Item(id, f, st, msg) == [id |-> id, file |-> f, status |-> st, message |-> msg]

Ids(xs) == {xs[i].id : i \in 1..Len(xs)}

\* the ids some callback still holds: those of the list and of the running call
UsedIds == Ids(items) \cup Ids(batch)

\* `${f.name}-${f.size}-${f.lastModified}-${crypto.randomUUID()}`: the file and
\* a part that makes the id one nothing else holds (the least such, as the
\* random part is opaque)
FreshId(f, used) ==
  <<f, CHOOSE n \in 0..Cardinality(used) :
         <<f, n>> \notin used /\ \A m \in 0..(n - 1) : <<f, m>> \in used>>

\* map.set(key, n): replaces the entry of the same file in place, or appends
MapSet(xs, it) ==
  IF \E j \in 1..Len(xs) : xs[j].file = it.file
  THEN [j \in 1..Len(xs) |-> IF xs[j].file = it.file THEN it ELSE xs[j]]
  ELSE Append(xs, it)

RECURSIVE PickInto(_, _, _, _)
PickInto(prev, list, i, used) ==
  IF i > Len(list) THEN prev
  ELSE LET id == FreshId(list[i], used)
       IN PickInto(MapSet(prev, Item(id, list[i], "pending", NoMessage)),
                   list, i + 1, used \cup {id})

\* the file lists a picker can return: distinct files in the dialog's order,
\* at least one
PickLists ==
  {l \in UNION {[1..n -> Files] : n \in 1..Cardinality(Files)} :
     \A i, j \in 1..Len(l) : i < j => l[i] < l[j]}

\* The history of the last call (waits, polls, resps, out, outcome, kind, batch)
\* is kept from the call's start until the first event after its end.
ForgetCall ==
  IF pc = "idle"
  THEN /\ batch' = <<>> /\ upload' = <<>> /\ pollI' = 0 /\ kind' = "none"
       /\ waits' = 0 /\ polls' = 0 /\ resps' = <<>> /\ out' = NoOut
       /\ outcome' = "none" /\ pc' = "idle"
  ELSE UNCHANGED callVars

\* onPick, lines 173-187 ("Choose files" is never disabled)
OnPick ==
  /\ EffectsDone
  /\ \E list \in PickLists : items' = PickInto(items, list, 1, UsedIds)
  /\ ForgetCall
  /\ UNCHANGED <<submitting, schemaText, schema, parseError, selectedEntity,
                 textEffect, schemaEffect, mergeVars, editVars, funVars>>

\* prev.filter(p => p.id !== id)
RECURSIVE FilterOut(_, _, _)
FilterOut(xs, id, i) ==
  IF i > Len(xs) THEN <<>>
  ELSE (IF xs[i].id # id THEN <<xs[i]>> ELSE <<>>) \o FilterOut(xs, id, i + 1)

\* removeOne, lines 188-190; the button is disabled while submitting or uploading
RemoveOne ==
  /\ EffectsDone
  /\ ~submitting
  /\ \E i \in 1..Len(items) :
       /\ items[i].status # "uploading"
       /\ items' = FilterOut(items, items[i].id, 1)
  /\ ForgetCall
  /\ UNCHANGED <<submitting, schemaText, schema, parseError, selectedEntity,
                 textEffect, schemaEffect, mergeVars, editVars, funVars>>

\* the Clear button, lines 497-504
ClearItems ==
  /\ EffectsDone
  /\ ~submitting /\ Len(items) > 0
  /\ items' = <<>>
  /\ ForgetCall
  /\ UNCHANGED <<submitting, schemaText, schema, parseError, selectedEntity,
                 textEffect, schemaEffect, mergeVars, editVars, funVars>>

\* a setStatus that leaves out the test on the id
SetStatusAll(prev, id, status, message) ==
  [j \in 1..Len(prev) |-> [prev[j] EXCEPT !.status = status, !.message = message]]

\* setStatus, lines 191-193
SetStatus(prev, id, status, message) ==
  [j \in 1..Len(prev) |->
     IF prev[j].id = id
     THEN [prev[j] EXCEPT !.status = status, !.message = message]
     ELSE prev[j]]

\* prev.map(i => ({...i, status, message})), lines 276, 283, 322, 325
MarkAll(prev, status, message) ==
  [j \in 1..Len(prev) |-> [prev[j] EXCEPT !.status = status, !.message = message]]

(***************************************************************************)
(* submitAll (lines 257-331) and pollResultWithDelays (lines 196-206).     *)
(***************************************************************************)
POLL_DELAYS_MS == <<10000, 15000, 15000, 10000, 15000>>

HttpError == "500 Internal Server Error"
NoResultMsg == "No result within polling window"

\* sample documents a converter or the extraction backend delivers
DocA ==
  SchemaDoc("", "", <<Ent("User", <<Attr("id", "String", FALSE, TRUE),
                                    Attr("userName", "String", FALSE, FALSE)>>)>>)
DocB ==
  SchemaDoc("HR", "2.0",
            <<Ent("User", <<Attr("userName", "Int", FALSE, FALSE),
                            Attr("active", "Bool", FALSE, FALSE)>>),
              Ent("Group", <<Attr("id", "String", FALSE, TRUE)>>)>>)
DocNull == SchemaDoc("", "", <<Ent("User", <<Null>>)>>)

\* the result payloads of a poll answer: JSON text, text that is not JSON,
\* a structured value, and a structured value on which mergeSchemas throws
ResultPool ==
  { JsonText(Arr(<<DocA, DocB>>), FALSE), Raw("not json"), DocA,
    Arr(<<DocNull, DocNull>>) }

Reply(ok, result) == [k |-> "reply", ok |-> ok, result |-> result]

\* what fetch of the result route can deliver: a rejection, a non-OK status,
\* an OK status without content (204), an OK reply with or without a result
PollResponses ==
  { [k |-> "network"],
    [k |-> "http", ok |-> FALSE, body |-> Raw("")],
    [k |-> "http", ok |-> TRUE, body |-> Raw("")],
    [k |-> "http", ok |-> TRUE, body |-> JsonText(Reply(TRUE, Null), FALSE)],
    [k |-> "http", ok |-> TRUE, body |-> JsonText(Reply(FALSE, DocA), FALSE)] }
  \cup { [k |-> "http", ok |-> TRUE, body |-> JsonText(Reply(TRUE, r), FALSE)] :
           r \in ResultPool }

\* a value in a condition: null and the empty string are falsy
Truthy(x) == ~(x.k = "null" \/ (x.k = "raw" /\ x.s = ""))

\* the kind of a response, for the history
RespKind(resp) ==
  IF resp.k = "network" THEN "network"
  ELSE IF ~resp.ok THEN "notOk"
  ELSE IF resp.body.k # "json" THEN "noContent"
  ELSE IF resp.body.v.ok /\ Truthy(resp.body.v.result) THEN "result"
  ELSE "pending"

\* lines 200-203, one iteration of the loop after its wait: the function
\* throws, returns, or goes on to the next iteration
PollIteration(resp) ==
  IF resp.k = "network" THEN [k |-> "throw"]
  ELSE IF ~resp.ok THEN [k |-> "return", out |-> [ok |-> FALSE, error |-> HttpError]]
  ELSE LET j == JSONparse(resp.body)
       IN IF j.k = "SyntaxError" THEN [k |-> "throw"]
          ELSE IF j.ok /\ Truthy(j.result)
               THEN [k |-> "return", out |-> [ok |-> TRUE, result |-> j.result]]
               ELSE [k |-> "next"]

\* a loop that runs one iteration too many
LoopContinuesOffByOne(i) == i <= Len(POLL_DELAYS_MS)

\* line 198: i < POLL_DELAYS_MS.length
LoopContinues(i) == i < Len(POLL_DELAYS_MS)

\* a barrier that opens with the first upload to settle (Promise.race)
AnySettled(u) == \E i \in 1..Len(u) : u[i] \in {"accepted", "failed"}

\* line 291: Promise.all resolves when every callback has returned
AllSettled(u) == \A i \in 1..Len(u) : u[i] \in {"accepted", "failed"}

\* the items of the closure of the call; the call reads their id and file only
Snapshot(its) == [i \in 1..Len(its) |-> [id |-> its[i].id, file |-> its[i].file]]

\* the Submit button (lines 489-496) and lines 257-261, up to the first await
SubmitAll ==
  /\ EffectsDone
  /\ ~submitting /\ Len(items) > 0
  /\ submitting' = TRUE
  /\ batch' = Snapshot(items)
  /\ pc' = "detect"
  /\ upload' = <<>> /\ pollI' = 0 /\ kind' = "none"
  /\ waits' = 0 /\ polls' = 0 /\ resps' = <<>> /\ out' = NoOut
  /\ outcome' = "running"
  /\ UNCHANGED <<items, schemaText, schema, parseError, selectedEntity,
                 textEffect, schemaEffect, mergeVars, editVars, funVars>>

\* the call ends by returning or by throwing; only the finally block of
\* lines 327-329 resets the flag
CallEnds(how, resetFlag) ==
  /\ pc' = "idle"
  /\ outcome' = how
  /\ submitting' = IF resetFlag THEN FALSE ELSE submitting

\* lines 292-293: every callback of items.map runs up to its fetch
RECURSIVE StartUploads(_, _, _)
StartUploads(prev, its, i) ==
  IF i > Len(its) THEN prev
  ELSE StartUploads(SetStatus(prev, its[i].id, "uploading", NoMessage), its, i + 1)

\* line 261: detectUploadKind answers (or rejects); on the generic path the
\* call goes on to line 291 and issues every upload
DetectAnswers ==
  /\ EffectsDone
  /\ pc = "detect"
  /\ \E kd \in {"scim", "soap", "generic", "rejected"} :
       /\ kind' = kd
       /\ CASE kd = "rejected" ->
                 /\ CallEnds("threw", FALSE)
                 /\ UNCHANGED <<items, upload>>
            [] kd = "generic" ->
                 /\ items' = StartUploads(items, batch, 1)
                 /\ upload' = [i \in 1..Len(batch) |-> "fetch"]
                 /\ pc' = "upload"
                 /\ UNCHANGED <<outcome, submitting>>
            [] OTHER ->
                 /\ pc' = kd
                 /\ UNCHANGED <<items, upload, outcome, submitting>>
  /\ UNCHANGED <<batch, pollI, waits, polls, resps, out, schemaText, schema,
                 parseError, selectedEntity, textEffect, schemaEffect, mergeVars, editVars, funVars>>

\* lines 263-278: readScimDocs answers; with documents found the schema text
\* is set and the call returns, otherwise the call falls off the if chain
ScimRead ==
  /\ EffectsDone
  /\ pc = "scim"
  /\ \E found \in BOOLEAN :
       IF found
       THEN /\ SetSchemaText(JSONstringify(DocA))
            /\ items' = MarkAll(items, "done", "SCIM parsed")
       ELSE UNCHANGED <<schemaText, textEffect, items>>
  /\ CallEnds("returned", FALSE)
  /\ UNCHANGED <<batch, upload, pollI, kind, waits, polls, resps, out, schema,
                 parseError, selectedEntity, schemaEffect, mergeVars, editVars, funVars>>

\* lines 281-285: the file texts are read and converted, or a read rejects
SoapRead ==
  /\ EffectsDone
  /\ pc = "soap"
  /\ \E ok \in BOOLEAN :
       IF ok
       THEN /\ items' = MarkAll(items, "done", "Completed")
            /\ SetSchemaText(JSONstringify(DocB))
            /\ CallEnds("returned", FALSE)
       ELSE /\ CallEnds("threw", FALSE)
            /\ UNCHANGED <<schemaText, textEffect, items>>
  /\ UNCHANGED <<batch, upload, pollI, kind, waits, polls, resps, out, schema,
                 parseError, selectedEntity, schemaEffect, mergeVars, editVars, funVars>>

\* lines 301-305 and 308-310: the fetch of one upload settles
UploadResponds ==
  /\ EffectsDone
  /\ pc = "upload"
  /\ \E i \in 1..Len(batch) :
       /\ upload[i] = "fetch"
       /\ \E r \in {"ok", "notOk", "network"} :
            CASE r = "ok" ->
                   /\ upload' = [upload EXCEPT ![i] = "json"]
                   /\ UNCHANGED items
              [] r = "notOk" ->
                   /\ upload' = [upload EXCEPT ![i] = "failed"]
                   /\ items' = SetStatus(items, batch[i].id, "error", HttpError)
              [] OTHER ->
                   /\ upload' = [upload EXCEPT ![i] = "failed"]
                   /\ items' = SetStatus(items, batch[i].id, "error", "Network error")
  /\ UNCHANGED <<submitting, schemaText, schema, parseError, selectedEntity,
                 textEffect, schemaEffect, pc, batch, pollI, kind, waits, polls,
                 resps, out, outcome, mergeVars, editVars, funVars>>

\* lines 306-307: res.json() settles (a rejection is caught) and the item is queued
UploadQueued ==
  /\ EffectsDone
  /\ pc = "upload"
  /\ \E i \in 1..Len(batch) :
       /\ upload[i] = "json"
       /\ upload' = [upload EXCEPT ![i] = "accepted"]
       /\ items' = SetStatus(items, batch[i].id, "processing", "Queued")
  /\ UNCHANGED <<submitting, schemaText, schema, parseError, selectedEntity,
                 textEffect, schemaEffect, pc, batch, pollI, kind, waits, polls,
                 resps, out, outcome, mergeVars, editVars, funVars>>

\* lines 291-313 and 198-199: Promise.all resolves, the first wait starts
StartPolling ==
  /\ EffectsDone
  /\ pc = "upload"
  /\ AllSettled(upload)
  /\ pollI' = 0
  /\ pc' = IF LoopContinues(0) THEN "wait" ELSE "poll"
  /\ UNCHANGED <<pageVars, batch, upload, kind, waits, polls, resps, out,
                 outcome, mergeVars, editVars, funVars>>

\* lines 199-200: the wait of iteration i elapses and the poll is issued
WaitElapses ==
  /\ EffectsDone
  /\ pc = "wait"
  /\ waits' = waits + 1
  /\ polls' = polls + 1
  /\ pc' = "poll"
  /\ UNCHANGED <<pageVars, batch, upload, pollI, kind, resps, out, outcome,
                 mergeVars, editVars, funVars>>

\* lines 314-329: submitAll with the value pollResultWithDelays returned
Finish(o) ==
  /\ out' = o
  /\ IF o.ok
     THEN LET text == IF IsString(o.result) THEN o.result ELSE JSONstringify(o.result)
              docs == JSONparse(text)
              merged == mergeSchemas(docs)
          IN IF docs.k = "SyntaxError" \/ merged.k = "TypeError"
             THEN /\ CallEnds("threw", TRUE)
                  /\ UNCHANGED <<schemaText, textEffect, items>>
             ELSE /\ SetSchemaText(JSONstringify(merged))
                  /\ items' = MarkAll(items, "done", "Completed")
                  /\ CallEnds("returned", TRUE)
     ELSE /\ SetSchemaText(Raw(o.error))
          /\ items' = MarkAll(items, "error", o.error)
          /\ CallEnds("returned", TRUE)

\* lines 200-205 and 313-329: the poll is answered
PollResponds ==
  /\ EffectsDone
  /\ pc = "poll"
  /\ \E resp \in PollResponses :
       LET it == PollIteration(resp)
       IN /\ resps' = Append(resps, RespKind(resp))
          /\ CASE it.k = "throw" ->
                    /\ CallEnds("threw", TRUE)
                    /\ UNCHANGED <<out, pollI, schemaText, textEffect, items>>
               [] it.k = "return" ->
                    /\ Finish(it.out)
                    /\ UNCHANGED pollI
               [] OTHER ->
                    /\ pollI' = pollI + 1
                    /\ IF LoopContinues(pollI + 1)
                       THEN /\ pc' = "wait"
                            /\ UNCHANGED <<out, outcome, submitting, schemaText,
                                           textEffect, items>>
                       ELSE Finish([ok |-> FALSE, error |-> NoResultMsg])
  /\ UNCHANGED <<schema, parseError, selectedEntity, schemaEffect, batch, upload,
                 kind, waits, polls, mergeVars, editVars, funVars>>

(***************************************************************************)
(* SpecEdit: the schema editor.  The handlers of lines 360-453 are driven  *)
(* as functions: with the indices the rendered editor passes and with      *)
(* indices just outside the lists.                                         *)
(***************************************************************************)
MaxEdits == 3

TYPE_OPTIONS == <<"String", "Int", "Bool", "Datetime">>

\* documents a user types or pastes: two keys in one entity; three entities
DocTwoKeys ==
  SchemaDoc("HR", "1.0",
            <<Ent("User", <<Attr("id", "String", FALSE, TRUE),
                            Attr("mail", "String", FALSE, TRUE)>>)>>)
\* an attribute as a document spells it: with IsKey, with the older isKey,
\* with both or with neither
AttrSpelt(n, mv, flags) ==
  [f \in {"k", "name", "type", "MultiValue"} \cup DOMAIN flags |->
     IF f = "k" THEN "attr"
     ELSE IF f = "name" THEN n
     ELSE IF f = "type" THEN "String"
     ELSE IF f = "MultiValue" THEN mv
     ELSE flags[f]]
DocThree ==
  SchemaDoc("HR", "1.0",
            <<Ent("Entity", <<AttrSpelt("id", FALSE, <<>>)>>),
              Ent("Entity 3", <<>>),
              Ent("User", <<AttrSpelt("id", FALSE, [IsKey |-> FALSE, isKey |-> TRUE]),
                            AttrSpelt("mail", TRUE, [isKey |-> TRUE])>>)>>)

\* the textarea's onChange (lines 711-717): the user replaces the text.
\* submitAll never reads the text, so Spec leaves typing out.
UserTexts ==
  { Raw(""), BlankText, Raw("{oops"), JsonText(DocA, FALSE), JsonText(Other, FALSE),
    JsonText(DocTwoKeys, FALSE), JsonText(DocThree, FALSE) }

\* what the handlers are called with: the editor passes selectedEntity and
\* the index of a listed attribute (lines 586-677); the handlers are also
\* called one past the end of a list and, where splice is reached, at -1
NameInputs == {"", "  ", "id"}
TypeInputs == {TYPE_OPTIONS[2]}
EntityArgs ==
  IF schema = Null THEN {0} ELSE {selectedEntity, Len(schema.entities)}
EntityArgsFrom(lo) ==
  IF schema = Null THEN {0} ELSE {lo, selectedEntity, Len(schema.entities)}
AttrArgsFrom(lo, ei) ==
  IF schema = Null \/ ei < 0 \/ ei >= Len(schema.entities) THEN {0}
  ELSE lo..Len(schema.entities[ei + 1].attributes)
AttrArgs(ei) == AttrArgsFrom(0, ei)

Op(name, ei, ai, text, flag) ==
  [name |-> name, ei |-> ei, ai |-> ai, text |-> text, flag |-> flag,
   result |-> "none"]
NoOp == Op("none", 0, 0, "", FALSE)

\* how a handler ends: an early return, a TypeError, or its setSchema(s)
\* and the selected index it leaves
Return == [k |-> "return"]
SetSchema(s, v, sel) == [k |-> "set", schema |-> v, selected |-> sel, fresh |-> s.fresh]

\* structuredClone(schema): an equal value in objects of its own
AliasOfSchema(v) == [v |-> v, fresh |-> FALSE]
structuredClone(v) == [v |-> v, fresh |-> TRUE]

\* xs[i] of a JavaScript array (undefined outside 0..length-1)
InRange(xs, i) == i >= 0 /\ i < Len(xs)
SetAt(xs, i, v) == [xs EXCEPT ![i + 1] = v]
\* obj.f = v
SetField(r, f, v) == [g \in (DOMAIN r) \cup {f} |-> IF g = f THEN v ELSE r[g]]

Splice1Last(xs, start) ==
  IF Len(xs) = 0 THEN xs ELSE [i \in 1..(Len(xs) - 1) |-> xs[i]]

\* xs.splice(start, 1)
Splice1(xs, start) ==
  LET n == Len(xs)
      st == IF start >= 0 THEN start ELSE IF n + start < 0 THEN 0 ELSE n + start
  IN IF st >= n THEN xs
     ELSE [i \in 1..(n - 1) |-> IF i <= st THEN xs[i] ELSE xs[i + 1]]

\* s.entities[ei].attributes replaced by as
SetAttributes(v, ei, as) ==
  [v EXCEPT !.entities = SetAt(@, ei, SetField(@[ei + 1], "attributes", as))]

\* lines 360-365
updateEntityName(idx, name) ==
  IF schema = Null THEN Return
  ELSE LET s == structuredClone(schema)
       IN IF ~InRange(s.v.entities, idx) THEN TypeError
          ELSE SetSchema(s,
                 [s.v EXCEPT !.entities =
                    SetAt(@, idx, SetField(@[idx + 1], "name",
                                           IF name = "" THEN "Entity" ELSE name))],
                 selectedEntity)

\* lines 366-376
addAttribute(idx) ==
  IF schema = Null THEN Return
  ELSE LET s == structuredClone(schema)
       IN IF ~InRange(s.v.entities, idx) THEN TypeError
          ELSE SetSchema(s,
                 SetAttributes(s.v, idx,
                   Append(s.v.entities[idx + 1].attributes,
                          Attr("new_field", "String", FALSE, FALSE))),
                 selectedEntity)

\* `${base} ${i}`
Numbered(base, i) == base \o " " \o ToString(i)

\* lines 380-382: the while loop from i
RECURSIVE NextFree(_, _, _)
NextFree(base, existing, i) ==
  IF \E j \in 1..Len(existing) : existing[j] = Numbered(base, i)
  THEN NextFree(base, existing, i + 1)
  ELSE i

uniqueEntityNameBase(base, existing) == base

\* lines 378-383
uniqueEntityName(base, existing) ==
  IF ~(\E j \in 1..Len(existing) : existing[j] = base) THEN base
  ELSE Numbered(base, NextFree(base, existing, 2))

\* lines 385-399
addEntity ==
  LET empty == SchemaDoc("Connector", "1.0.0", <<>>)
      s == structuredClone(IF schema = Null THEN empty ELSE schema)
      existingNames == [i \in 1..Len(s.v.entities) |-> s.v.entities[i].name]
      name == uniqueEntityName("Entity", existingNames)
      entities == Append(s.v.entities,
                         Ent(name, <<Attr("id", "String", FALSE, TRUE)>>))
  IN SetSchema(s, [s.v EXCEPT !.entities = entities], Len(entities) - 1)

MinFirst(a, b) == a
Max(a, b) == IF a >= b THEN a ELSE b
Min(a, b) == IF a <= b THEN a ELSE b

removeEntityNoGuard(idx) ==
  IF schema = Null THEN Return
  ELSE LET s == structuredClone(schema)
           entities == Splice1(s.v.entities, idx)
       IN IF Len(entities) = 0
          THEN SetSchema(s, [s.v EXCEPT !.entities = entities], 0)
          ELSE SetSchema(s, [s.v EXCEPT !.entities = entities],
                         Max(0, Min(idx, Len(entities) - 1)))

\* lines 401-419
removeEntity(idx) ==
  IF schema = Null THEN Return
  ELSE IF idx < 0 \/ idx >= Len(schema.entities) THEN Return
  ELSE LET s == structuredClone(schema)
           entities == Splice1(s.v.entities, idx)
       IN IF Len(entities) = 0
          THEN SetSchema(s, [s.v EXCEPT !.entities = entities], 0)
          ELSE SetSchema(s, [s.v EXCEPT !.entities = entities],
                         Max(0, Min(idx, Len(entities) - 1)))

\* lines 422-427
removeAttribute(ei, ai) ==
  IF schema = Null THEN Return
  ELSE LET s == structuredClone(schema)
       IN IF ~InRange(s.v.entities, ei) THEN TypeError
          ELSE SetSchema(s,
                 SetAttributes(s.v, ei, Splice1(s.v.entities[ei + 1].attributes, ai)),
                 selectedEntity)

\* lines 428-445: s.entities[ei].attributes[ai].f = v
SetAttrField(ei, ai, f, v) ==
  IF schema = Null THEN Return
  ELSE LET s == structuredClone(schema)
       IN IF ~InRange(s.v.entities, ei) THEN TypeError
          ELSE LET as == s.v.entities[ei + 1].attributes
               IN IF ~InRange(as, ai) THEN TypeError
                  ELSE SetSchema(s,
                         SetAttributes(s.v, ei, SetAt(as, ai, SetField(as[ai + 1], f, v))),
                         selectedEntity)

\* lines 428-433
updateAttrName(ei, ai, name) ==
  SetAttrField(ei, ai, "name", IF name = "" THEN "field" ELSE name)
\* lines 434-439
updateAttrType(ei, ai, type) == SetAttrField(ei, ai, "type", type)
\* lines 440-445
updateAttrMV(ei, ai, mv) == SetAttrField(ei, ai, "MultiValue", mv)

toggleKeyOneFlag(ei, ai, makeKey) ==
  IF schema = Null THEN Return
  ELSE LET s == structuredClone(schema)
       IN IF ~InRange(s.v.entities, ei) THEN TypeError
          ELSE LET as == s.v.entities[ei + 1].attributes
               IN SetSchema(s,
                    SetAttributes(s.v, ei,
                      [idx \in 1..Len(as) |->
                         IF (idx - 1) = ai THEN SetField(as[idx], "IsKey", makeKey)
                         ELSE as[idx]]),
                    selectedEntity)

\* lines 446-453
toggleKey(ei, ai, makeKey) ==
  IF schema = Null THEN Return
  ELSE LET s == structuredClone(schema)
       IN IF ~InRange(s.v.entities, ei) THEN TypeError
          ELSE LET as == s.v.entities[ei + 1].attributes
               IN SetSchema(s,
                    SetAttributes(s.v, ei,
                      [idx \in 1..Len(as) |->
                         SetField(as[idx], "IsKey", makeKey /\ (idx - 1) = ai)]),
                    selectedEntity)

\* one call of a handler: o is the call, res how it ends
Call(o, res) ==
  /\ EffectsDone
  /\ edits < MaxEdits
  /\ edits' = edits + 1
  /\ op' = [o EXCEPT !.result = res.k]
  /\ before' = schema
  /\ IF res.k = "set"
     THEN /\ schema' = res.schema
          /\ selectedEntity' = res.selected
          /\ schemaEffect' = TRUE
          /\ held' = IF res.fresh THEN schema ELSE res.schema
     ELSE /\ held' = schema
          /\ UNCHANGED <<schema, selectedEntity, schemaEffect>>
  /\ UNCHANGED <<items, submitting, schemaText, parseError, textEffect,
                 callVars, mergeVars, funVars>>

\* the arguments after the entity index: all of them for a listed entity,
\* one choice for an index without entity (the handler throws before it
\* reads them)
ArgsFor(ei, args) ==
  IF schema # Null /\ InRange(schema.entities, ei) THEN args
  ELSE {CHOOSE a \in args : TRUE}

UpdateEntityName ==
  \E idx \in EntityArgs : \E name \in ArgsFor(idx, NameInputs) :
    Call(Op("updateEntityName", idx, 0, name, FALSE), updateEntityName(idx, name))
AddAttribute ==
  \E idx \in EntityArgs : Call(Op("addAttribute", idx, 0, "", FALSE), addAttribute(idx))
AddEntity ==
  /\ Call(Op("addEntity", 0, 0, "", FALSE), addEntity)
RemoveEntity ==
  \E idx \in EntityArgsFrom(-1) :
    Call(Op("removeEntity", idx, 0, "", FALSE), removeEntity(idx))
RemoveAttribute ==
  \E ei \in EntityArgs : \E ai \in AttrArgsFrom(-1, ei) :
    Call(Op("removeAttribute", ei, ai, "", FALSE), removeAttribute(ei, ai))
UpdateAttrName ==
  \E ei \in EntityArgs : \E ai \in AttrArgs(ei) : \E name \in ArgsFor(ei, NameInputs) :
    Call(Op("updateAttrName", ei, ai, name, FALSE), updateAttrName(ei, ai, name))
UpdateAttrType ==
  \E ei \in EntityArgs : \E ai \in AttrArgs(ei) : \E type \in TypeInputs :
    Call(Op("updateAttrType", ei, ai, type, FALSE), updateAttrType(ei, ai, type))
UpdateAttrMV ==
  \E ei \in EntityArgs : \E ai \in AttrArgs(ei) : \E mv \in ArgsFor(ei, BOOLEAN) :
    Call(Op("updateAttrMV", ei, ai, "", mv), updateAttrMV(ei, ai, mv))
ToggleKey ==
  \E ei \in EntityArgs : \E ai \in AttrArgs(ei) : \E makeKey \in ArgsFor(ei, BOOLEAN) :
    Call(Op("toggleKey", ei, ai, "", makeKey), toggleKey(ei, ai, makeKey))

\* the entity picker (lines 599-609): one of the listed entities is chosen
SelectEntity ==
  /\ EffectsDone
  /\ schema # Null
  /\ \E i \in 0..(Len(schema.entities) - 1) :
       /\ i # selectedEntity    \* onChange fires when another option is chosen
       /\ selectedEntity' = i
       /\ op' = [Op("select", i, 0, "", FALSE) EXCEPT !.result = "set"]
  /\ before' = schema
  /\ held' = schema
  /\ UNCHANGED <<items, submitting, schemaText, schema, parseError, textEffect,
                 schemaEffect, edits, callVars, mergeVars, funVars>>

\* the text is replaced: typed by the user, or set by line 321
NewText(name, t) ==
  /\ EffectsDone
  /\ edits < MaxEdits
  /\ edits' = edits + 1
  /\ SetSchemaText(t)
  /\ op' = [Op(name, 0, 0, "", FALSE) EXCEPT !.result = "set"]
  /\ before' = Null
  /\ held' = Null
  /\ UNCHANGED <<items, submitting, schema, parseError, selectedEntity,
                 schemaEffect, callVars, mergeVars, funVars>>

EditText ==
  \E t \in UserTexts : NewText("text", t)

\* lines 314-321: the result of a submission that succeeded; the
\* continuation of the await runs when the reply arrives, whether or not the
\* effects of the last commit have run, and its setSchemaText lands in the
\* update that is pending then (no submission precedes the first effects)
ResultLoads ==
  \E r \in ResultPool :
    LET text == IF IsString(r) THEN r ELSE JSONstringify(r)
        docs == JSONparse(text)
        merged == mergeSchemas(docs)
    IN /\ docs.k # "SyntaxError"
       /\ merged.k # "TypeError"
       /\ EffectsDone \/ op.name # "none"
       /\ edits < MaxEdits
       /\ edits' = edits + 1
       /\ SetSchemaText(JSONstringify(merged))
       /\ op' = [Op("result", 0, 0, JSONstringify(merged), FALSE) EXCEPT !.result = "set"]
       /\ before' = Null
       /\ held' = Null
       /\ UNCHANGED <<items, submitting, schema, parseError, selectedEntity,
                      schemaEffect, callVars, mergeVars, funVars>>

EditInit ==
  /\ edits = 0
  /\ op = NoOp
  /\ before = Null
  /\ held = Null

EditNext ==
  \/ RunSchemaTextEffect
  \/ RunSchemaEffect
  \/ RunBothEffects
  \/ RunBothEffects
  \/ EditText
  \/ ResultLoads
  \/ SelectEntity
  \/ UpdateEntityName
  \/ AddAttribute
  \/ AddEntity
  \/ RemoveEntity
  \/ RemoveAttribute
  \/ UpdateAttrName
  \/ UpdateAttrType
  \/ UpdateAttrMV
  \/ ToggleKey

(***************************************************************************)
(* readScimDocs (lines 208-254).  SpecScim passes it batches of files.     *)
(* A JSON object is a record with k = "res" and the fields it has; a JSON  *)
(* array is Arr(..), a JSON string Raw(..).                                *)
(***************************************************************************)
MaxBatch == 3

Undefined == [k |-> "undefined"]
\* x?.f
Get(x, f) == IF x.k = "res" /\ f \in DOMAIN x THEN x[f] ELSE Undefined
IsTruthy(x) == x.k # "undefined" /\ Truthy(x)
isArray(x) == x.k = "array"

SchemaRes == [k |-> "res", id |-> Raw("urn:User"), attributes |-> Arr(<<>>)]
ResType == [k |-> "res", schema |-> Raw("urn:User")]
ResTypeExt == [k |-> "res", schemaExtensions |-> Arr(<<>>)]
\* a member whose attributes field is not a list
AttrText == [k |-> "res", attributes |-> Raw("core")]
Envelope(members) == [k |-> "res", Resources |-> Arr(members)]

File(ext, text, big) == [ext |-> ext, text |-> text, big |-> big]
ScimFiles ==
  { File(".json", t, FALSE) :
      t \in { Raw("{oops"), JsonText(Null, FALSE),
              JsonText(Envelope(<<SchemaRes, ResType>>), FALSE),
              JsonText(Envelope(<<ResType>>), FALSE),
              JsonText(Envelope(<<AttrText, Null>>), FALSE),
              JsonText(SchemaRes, FALSE),
              JsonText(Arr(<<ResType, ResTypeExt>>), FALSE),
              JsonText(ResType, FALSE) } }
    \cup { File(".JSON", JsonText(ResTypeExt, FALSE), FALSE),
           File(".xml", JsonText(SchemaRes, FALSE), FALSE),
           File(".json", JsonText(SchemaRes, FALSE), TRUE) }

\* f.name.toLowerCase().endsWith(".json")
toLowerCase(ext) == IF ext = ".JSON" THEN ".json" ELSE ext
EndsWithJson(f) == toLowerCase(f.ext) = ".json"

\* lines 208-211: the first 400000 characters of the file; a larger file is
\* cut inside its document
readTextHead(f) == IF f.big THEN Raw("{\"id\":") ELSE f.text

Docs(ss, rts) == [k |-> "docs", schemas |-> ss, resourceTypes |-> rts]
IsSchemaPart(r) == isArray(Get(r, "attributes"))
IsRtPart(r) == IsTruthy(Get(r, "schema")) \/ IsTruthy(Get(r, "schemaExtensions"))

\* lines 223-247: the branches that sort a parsed document
Classify(acc, j) ==
  LET res == Get(j, "Resources")
  IN IF isArray(res)
        /\ \E i \in 1..Len(res.items) : IsTruthy(Get(res.items[i], "attributes"))
     THEN Docs(acc.schemas \o SelectSeq(res.items, IsSchemaPart),
               acc.resourceTypes \o SelectSeq(res.items, IsRtPart))
     ELSE IF IsTruthy(Get(j, "attributes")) /\ Get(j, "id").k = "raw"
     THEN Docs(Append(acc.schemas, j), acc.resourceTypes)
     ELSE IF isArray(j) /\ \E i \in 1..Len(j.items) : IsRtPart(j.items[i])
     THEN Docs(acc.schemas, acc.resourceTypes \o j.items)
     ELSE IF IsRtPart(j)
     THEN Docs(acc.schemas, Append(acc.resourceTypes, j))
     ELSE acc

\* the loop body without its try: the SyntaxError leaves the function
ReadOneNoCatch(acc, f) ==
  IF acc.k # "docs" THEN acc
  ELSE IF ~EndsWithJson(f) THEN acc
  ELSE LET j == JSONparse(readTextHead(f))
       IN IF j.k = "SyntaxError" THEN j ELSE Classify(acc, j)

\* lines 217-251: one iteration of the loop over the files
ReadOne(acc, f) ==
  IF acc.k # "docs" THEN acc
  ELSE IF ~EndsWithJson(f) THEN acc
  ELSE LET j == JSONparse(readTextHead(f))
       IN IF j.k = "SyntaxError" THEN acc ELSE Classify(acc, j)

RECURSIVE ReadFrom(_, _, _)
ReadFrom(acc, files, i) ==
  IF i > Len(files) THEN acc ELSE ReadFrom(ReadOne(acc, files[i]), files, i + 1)

readScimDocs(files) == ReadFrom(Docs(<<>>, <<>>), files, 1)

ScimInit ==
  /\ sFiles = <<>>
  /\ sDocs = readScimDocs(<<>>)

\* the batch grows by one file and is read
ScimPick ==
  /\ Len(sFiles) < MaxBatch
  /\ \E f \in ScimFiles :
       /\ sFiles' = Append(sFiles, f)
       /\ sDocs' = readScimDocs(sFiles')
  /\ UNCHANGED <<mergeVars, pageVars, callVars, editVars, idVars, apiVars>>

ScimNext == ScimPick

(***************************************************************************)
(* id30Base62 (lines 93-107).  SpecId runs it on byte streams.             *)
(***************************************************************************)
MaxFills == 3

ALPHABET ==
  <<"0", "1", "2", "3", "4", "5", "6", "7", "8", "9", "a", "b", "c",
     "d", "e", "f", "g", "h", "i", "j", "k", "l", "m", "n", "o", "p",
     "q", "r", "s", "t", "u", "v", "w", "x", "y", "z", "A", "B", "C",
     "D", "E", "F", "G", "H", "I", "J", "K", "L", "M", "N", "O", "P",
     "Q", "R", "S", "T", "U", "V", "W", "X", "Y", "Z">>
\* len, n, limit and buf.length of lines 94-98
idLen == 30
idN == Len(ALPHABET)
idLimit == 256 - (256 % idN)
BufLength == idLen * 2

\* the random source: the bytes of a pattern, over and over
Streams ==
  { <<0>>, <<61, 62>>, <<247, 248>>, <<255, 255, 0>>, <<255>>, <<248, 123, 255, 9>>,
    <<200, 250, 251, 252, 253, 254, 255>> }
ByteAt(src, pos) == src[(pos % Len(src)) + 1]

AcceptsAll(v) == v >= 0
\* v < limit
Accepts(v) == v < idLimit
\* ALPHABET[v % n]
SymbolOf(v) == ALPHABET[(v % idN) + 1]

IdInit ==
  /\ idSrc = <<0>>
  /\ idFills = 0
  /\ idBuf = <<>>
  /\ idI = 0
  /\ idOut = <<>>
  /\ idPc = "idle"

\* line 288: a call starts (lines 95-98)
IdCall ==
  /\ idPc \in {"idle", "returned"}
  /\ \E src \in Streams : idSrc' = src
  /\ idFills' = 0
  /\ idBuf' = [i \in 1..BufLength |-> 0]
  /\ idI' = 0
  /\ idOut' = <<>>
  /\ idPc' = "while"
  /\ UNCHANGED <<mergeVars, pageVars, callVars, editVars, scimVars, apiVars>>

\* lines 99-100: the test of the while loop, then getRandomValues and i = 0
IdWhile ==
  /\ idPc = "while"
  /\ IF Len(idOut) < idLen
     THEN /\ idFills < MaxFills
          /\ idBuf' = [i \in 1..BufLength |-> ByteAt(idSrc, idFills * BufLength + i - 1)]
          /\ idFills' = idFills + 1
          /\ idI' = 0
          /\ idPc' = "for"
     ELSE /\ idPc' = "returned"
          /\ UNCHANGED <<idBuf, idFills, idI>>
  /\ UNCHANGED <<idSrc, idOut>>
  /\ UNCHANGED <<mergeVars, pageVars, callVars, editVars, scimVars, apiVars>>

\* lines 101-104: the test of the for loop and one iteration
IdFor ==
  /\ idPc = "for"
  /\ IF idI < Len(idBuf) /\ Len(idOut) < idLen
     THEN LET v == idBuf[idI + 1]
          IN /\ idOut' = IF Accepts(v) THEN Append(idOut, SymbolOf(v)) ELSE idOut
             /\ idI' = idI + 1
             /\ UNCHANGED idPc
     ELSE /\ idPc' = "while"
          /\ UNCHANGED <<idOut, idI>>
  /\ UNCHANGED <<idSrc, idFills, idBuf>>
  /\ UNCHANGED <<mergeVars, pageVars, callVars, editVars, scimVars, apiVars>>

IdNext == IdCall \/ IdWhile \/ IdFor

(***************************************************************************)
(* app/webhooks_openai/route.ts: the store of async results, the webhook   *)
(* (POST) and the poll (GET).  SpecHook runs requests against the store.   *)
(***************************************************************************)
MaxRequests == 4

ResponseIds == {"resp_1", "resp_2"}

\* x?.text?.value ?? (typeof x?.text === "string" ? x.text : undefined)
TextValue(x) ==
  LET t == Get(x, "text")
  IN IF Get(t, "value").k \notin {"undefined", "null"} THEN Get(t, "value")
     ELSE IF t.k = "raw" THEN t ELSE Undefined

\* typeof v === "string" && v.trim()
Kept(v) == v.k = "raw" /\ trim(v) # Raw("")

\* lines 27-49: what one item of res.output adds to out
ItemParts(item) ==
  LET type == Get(item, "type")
      content == Get(item, "content")
      one(v) == IF Kept(v) THEN <<trim(v)>> ELSE <<>>
      each[i \in 0..Len(content.items)] ==
        IF i = 0 THEN <<>> ELSE each[i - 1] \o one(TextValue(content.items[i]))
  IN IF type = Raw("message")
     THEN IF isArray(content) THEN each[Len(content.items)] ELSE <<>>
     ELSE IF type = Raw("output_text") THEN one(TextValue(item))
     ELSE IF type = Raw("tool_output")
     THEN one(IF Get(Get(content, "text"), "value").k \notin {"undefined", "null"}
              THEN Get(Get(content, "text"), "value")
              ELSE TextValue(item))
     ELSE <<>>

\* out.join("\n\n")
JoinParts(parts) ==
  LET join[i \in 0..Len(parts)] ==
        IF i = 0 THEN ""
        ELSE IF i = 1 THEN parts[1].s ELSE join[i - 1] \o "\n\n" \o parts[i].s
  IN Raw(join[Len(parts)])

\* lines 21-51
extractText(res) ==
  IF Kept(Get(res, "output_text")) THEN trim(Get(res, "output_text"))
  ELSE LET output == IF isArray(Get(res, "output")) THEN Get(res, "output").items
                    ELSE <<>>
           parts[i \in 0..Len(output)] ==
             IF i = 0 THEN <<>> ELSE parts[i - 1] \o ItemParts(output[i])
       IN trim(JoinParts(parts[Len(output)]))

Res(fields) == [f \in DOMAIN fields \cup {"k"} |-> IF f = "k" THEN "res" ELSE fields[f]]
\* Response objects, as a webhook event carries them and as retrieve returns
\* them: without text, with output_text, with text in the output items only
ThinRes == Res([status |-> Raw("completed")])
DirectRes == Res([output_text |-> Raw("hi")])
MessageRes ==
  Res([output_text |-> BlankText,
       output |-> Arr(<<Res([type |-> Raw("message"),
                             content |-> Arr(<<Res([text |-> Res([value |-> Raw("hi")])]),
                                               Res([text |-> BlankText]),
                                               Res([text |-> Raw("there")])>>)]),
                        Res([type |-> Raw("reasoning")])>>)])
ToolRes ==
  Res([output |-> Arr(<<Res([type |-> Raw("tool_output"),
                             content |-> Res([text |-> Res([value |-> Raw("done")])])]),
                        Res([type |-> Raw("output_text"), text |-> Raw("ok")])>>)])
Responses == {ThinRes, DirectRes, MessageRes, ToolRes}

\* client.responses.retrieve(responseId): a Response, or it throws
Throws == [k |-> "throws"]
Retrieves == {Throws, ThinRes, DirectRes}

EventTypes == {"response.completed", "response.failed", "response.created"}
ChatIds == {Undefined, Raw("chat_1")}

\* a RecordT (lines 5-10); a field that is not there is Undefined
Record(chatId, status, text, err) ==
  [k |-> "record", chatId |-> chatId, status |-> status, text |-> text, error |-> err]

Answer(route, id, status) == [route |-> route, id |-> id, status |-> status]

HookInit ==
  /\ store = [id \in ResponseIds |-> Undefined]
  /\ handled = 0
  /\ answer = Answer("none", "", 0)
  /\ served = {}

\* lines 53-105, for an event of the given type about Response res with
\* metadata.chatId chatId; retrieved is what a retrieve of line 75 answers
POST(signed, type, id, chatId, res, retrieved) ==
  /\ handled < MaxRequests
  /\ handled' = handled + 1
  /\ IF ~signed
     THEN /\ answer' = Answer("POST", id, 400)
          /\ UNCHANGED store
     ELSE /\ answer' = Answer("POST", id, 200)
          /\ IF type = "response.completed"
             THEN LET text == extractText(res)
                      fallback == IF Truthy(text) \/ retrieved = Throws THEN text
                                  ELSE extractText(retrieved)
                  IN store' = [store EXCEPT ![id] =
                                 Record(chatId, "completed", fallback, Undefined)]
             ELSE IF type = "response.failed"
             THEN store' = [store EXCEPT ![id] =
                              Record(chatId, "failed", Undefined, Raw("response.failed"))]
             ELSE UNCHANGED store
  /\ UNCHANGED <<served, mergeVars, pageVars, callVars, editVars, scimVars, idVars, chatVars>>

\* lines 112-137, for ?responseId=id ("" when the parameter is missing)
GET(id, retrieved) ==
  /\ handled < MaxRequests
  /\ handled' = handled + 1
  /\ IF id = ""
     THEN /\ answer' = Answer("GET", id, 400)
          /\ UNCHANGED <<store, served>>
     ELSE LET record == store[id]
              text == IF retrieved = Throws THEN Raw("") ELSE extractText(retrieved)
          IN IF record # Undefined /\ (IsTruthy(record.text) \/ record.status = "failed")
             THEN /\ answer' = Answer("GET", id, 200)
                  /\ served' = served \cup {id}
                  /\ UNCHANGED store
             ELSE IF Truthy(text)
             THEN /\ store' = [store EXCEPT ![id] =
                                 Record(Undefined, "completed", text, Undefined)]
                  /\ answer' = Answer("GET", id, 200)
                  /\ served' = served \cup {id}
             ELSE /\ answer' = Answer("GET", id, 204)
                  /\ UNCHANGED <<store, served>>
  /\ UNCHANGED <<mergeVars, pageVars, callVars, editVars, scimVars, idVars, chatVars>>

Webhook ==
  \E signed \in BOOLEAN, type \in EventTypes, id \in ResponseIds, chatId \in ChatIds,
     res \in Responses, retrieved \in Retrieves :
    POST(signed, type, id, chatId, res, retrieved)

Poll ==
  \E id \in ResponseIds \cup {""}, retrieved \in Retrieves : GET(id, retrieved)

HookNext == Webhook \/ Poll

(***************************************************************************)
(* The chat page (app/web_dev_chatbot/page.tsx) and the poll route it      *)
(* calls (GET of app/logout/page.tsx, lines 87-124).  An HTTP answer is    *)
(* [status, ct, body]; a body is a text: JsonText(v, FALSE) for the JSON   *)
(* of v, Raw(s) otherwise.                                                 *)
(***************************************************************************)
MaxSubmits == 2
MaxClears == 2
MaxTries == 2

Http(status, ct, body) == [k |-> "http", status |-> status, ct |-> ct, body |-> body]
NetworkError == [k |-> "network"]
\* new NextResponse(null, { status: 204 })
NoContent == Http(204, "", Raw(""))
\* NextResponse.json(v, { status })
JsonResponse(v, status) == Http(status, "application/json", JsonText(v, FALSE))
ErrorBody(msg) == Res([error |-> Raw(msg)])
ReplyBody(reply) == Res([reply |-> reply])

\* res.ok
IsOk(r) == r.status \in 200..299
\* ct.includes("application/json")
IsJsonType(ct) == ct \in {"application/json", "application/json; charset=utf-8"}
\* typeof v === "string"
IsText(v) == v.k \in {"raw", "json"}

\* what the n8n poll webhook may answer
UpstreamJson ==
  { Null, Res([status |-> Raw("pending")]),
    Res([status |-> Raw("pending"), reply |-> Raw("hi")]),
    Res([status |-> Raw("complete"), reply |-> Raw("hi")]),
    Res([status |-> Raw("complete")]),
    Res([reply |-> Raw("hi")]), Res([reply |-> Null]), Raw("hi") }
UpstreamBodies ==
  {JsonText(v, FALSE) : v \in UpstreamJson} \cup {Raw(""), Raw("hi"), Raw("{oops")}
Upstreams ==
  {NetworkError, Http(204, "", Raw("")), Http(500, "text/plain", Raw("down"))}
    \cup {Http(200, ct, b) : ct \in {"application/json; charset=utf-8", "text/plain", ""},
                              b \in UpstreamBodies}

\* lines 111-115 of the route and lines 107-111 of the page: what JSON data
\* is taken for; data.reply of null throws
Classify2(data) ==
  IF Get(data, "status") = Raw("pending") THEN [k |-> "pending"]
  ELSE IF Get(data, "status") = Raw("complete") /\ IsText(Get(data, "reply"))
  THEN [k |-> "reply", reply |-> data.reply]
  ELSE IF data.k \in {"null", "undefined"} THEN [k |-> "throws"]
  ELSE IF IsText(Get(data, "reply")) THEN [k |-> "reply", reply |-> data.reply]
  ELSE [k |-> "pending"]

\* app/logout/page.tsx lines 87-124
RouteGET(id, configured, n8nRes) ==
  IF id = "" THEN JsonResponse(ErrorBody("Missing id"), 400)
  ELSE IF ~configured THEN JsonResponse(ErrorBody("N8N_POLL_WEBHOOK_URL not set"), 500)
  ELSE IF n8nRes = NetworkError THEN JsonResponse(ErrorBody("fetch failed"), 500)
  ELSE IF n8nRes.status = 204 THEN NoContent
  ELSE IF ~IsOk(n8nRes) THEN JsonResponse(ErrorBody("n8n poll failed"), 502)
  ELSE IF IsJsonType(n8nRes.ct)
  THEN LET data == JSONparse(n8nRes.body)
           c == Classify2(data)
       IN IF data = SyntaxError \/ c.k = "throws"
          THEN JsonResponse(ErrorBody("Unexpected error"), 500)
          ELSE IF c.k = "pending" THEN NoContent
          ELSE JsonResponse(ReplyBody(c.reply), 200)
  ELSE IF ~Truthy(n8nRes.body) THEN NoContent
  ELSE JsonResponse(ReplyBody(n8nRes.body), 200)

\* page.tsx lines 100-116, on the answer of the route
pollBackend(res) ==
  IF res = NetworkError THEN [k |-> "throws"]
  ELSE IF res.status = 204 THEN [k |-> "pending"]
  ELSE IF ~IsOk(res) THEN [k |-> "throws"]
  ELSE IF IsJsonType(res.ct)
  THEN LET data == JSONparse(res.body)
       IN IF data = SyntaxError THEN [k |-> "throws"] ELSE Classify2(data)
  ELSE IF ~Truthy(res.body) THEN [k |-> "pending"]
  ELSE [k |-> "reply", reply |-> res.body]

Message(id, role, content) == [id |-> id, role |-> role, content |-> content]
Welcome == Message(0, "assistant", Raw("Hi!"))
Ellipsis == Raw("...")
NoPoll == [configured |-> TRUE, n8nRes |-> NoContent, res |-> NoContent,
           result |-> [k |-> "none"]]

ChatInit ==
  /\ messages = <<Welcome>>
  /\ loading = FALSE
  /\ error = Null
  /\ hpc = "idle"
  /\ placeholderId = 0
  /\ tries = 0
  /\ resets = 0
  /\ uuids = 0
  /\ submits = 0
  /\ clears = 0
  /\ poll = NoPoll

NotChat == <<mergeVars, pageVars, callVars, editVars, scimVars, idVars, hookVars>>

\* lines 64-77: the list is emptied now and replaced 50 ms later
ClearChat ==
  /\ clears < MaxClears
  /\ clears' = clears + 1
  /\ messages' = <<>>
  /\ error' = Null
  /\ resets' = resets + 1
  /\ UNCHANGED <<loading, hpc, placeholderId, tries, uuids, submits, poll, NotChat>>

\* lines 67-76: the callback of the timeout
ResetFires ==
  /\ resets > 0
  /\ resets' = resets - 1
  /\ uuids' = uuids + 1
  /\ messages' = <<Message(uuids + 1, "assistant", Raw("Cleared!"))>>
  /\ UNCHANGED <<loading, error, hpc, placeholderId, tries, submits, clears, poll, NotChat>>

\* lines 118-127, with the text of the input box
HandleSubmit(input) ==
  /\ submits < MaxSubmits
  /\ trim(input) # Raw("") /\ ~loading
  /\ submits' = submits + 1
  /\ error' = Null
  /\ uuids' = uuids + 1
  /\ messages' = Append(messages, Message(uuids + 1, "user", trim(input)))
  /\ loading' = TRUE
  /\ hpc' = "sending"
  /\ UNCHANGED <<placeholderId, tries, resets, clears, poll, NotChat>>

\* lines 167-177: the catch and the finally
Caught(msg) ==
  /\ error' = Raw(msg)
  /\ uuids' = uuids + 1
  /\ messages' = Append(messages, Message(uuids + 1, "error", Raw(msg)))
  /\ loading' = FALSE
  /\ hpc' = "idle"

\* lines 136-143: sendToBackend returns the request id, or throws
SendReturns(sent) ==
  /\ hpc = "sending"
  /\ IF sent
     THEN /\ uuids' = uuids + 1
          /\ placeholderId' = uuids + 1
          /\ messages' = Append(messages, Message(uuids + 1, "assistant", Ellipsis))
          /\ hpc' = "polling"
          /\ tries' = 0
          /\ poll' = NoPoll
          /\ UNCHANGED <<loading, error>>
     ELSE /\ Caught("Send route failed")
          /\ UNCHANGED <<placeholderId, tries, poll>>
  /\ UNCHANGED <<resets, submits, clears, NotChat>>

\* lines 148-160: one round of the loop, the route answering in between
PollRound(configured, n8nRes) ==
  /\ hpc = "polling"
  /\ tries < MaxTries
  /\ LET res == RouteGET("req_1", configured, n8nRes)
         result == pollBackend(res)
     IN /\ poll' = [configured |-> configured, n8nRes |-> n8nRes, res |-> res,
                    result |-> result]
        /\ IF result.k = "throws"
           THEN Caught("Poll route failed") /\ UNCHANGED tries
           ELSE IF result.k = "reply"
           THEN /\ messages' =
                     [i \in 1..Len(messages) |->
                        IF messages[i].id = placeholderId
                        THEN [messages[i] EXCEPT !.content = result.reply]
                        ELSE messages[i]]
                /\ loading' = FALSE
                /\ hpc' = "idle"
                /\ UNCHANGED <<error, uuids, tries>>
           ELSE /\ tries' = tries + 1
                /\ UNCHANGED <<messages, loading, error, hpc, uuids>>
  /\ UNCHANGED <<placeholderId, resets, submits, clears, NotChat>>

\* lines 162-166 and 174-177: maxWaitMs have passed
TimedOut ==
  /\ hpc = "polling"
  /\ tries > 0
  /\ messages' =
       [i \in 1..Len(messages) |->
          IF messages[i].role = "assistant" /\ messages[i].content = Ellipsis
          THEN [messages[i] EXCEPT !.role = "error", !.content = Raw("Timed out")]
          ELSE messages[i]]
  /\ error' = Raw("Timed out")
  /\ loading' = FALSE
  /\ hpc' = "idle"
  /\ UNCHANGED <<placeholderId, tries, resets, uuids, submits, clears, poll, NotChat>>

Submits == \E input \in {Raw(""), BlankText, Raw("hello")} : HandleSubmit(input)
Sends == \E sent \in BOOLEAN : SendReturns(sent)
Polls == \E configured \in BOOLEAN, n8nRes \in Upstreams : PollRound(configured, n8nRes)

ChatNext == ClearChat \/ ResetFires \/ Submits \/ Sends \/ Polls \/ TimedOut

PageInit ==
  /\ items = <<>>
  /\ submitting = FALSE
  /\ schemaText = Raw("")
  /\ schema = Null
  /\ parseError = NoError
  /\ selectedEntity = 0
  /\ textEffect = TRUE    \* effects run once after the first render
  /\ schemaEffect = TRUE
  /\ pc = "idle" /\ batch = <<>> /\ upload = <<>> /\ pollI = 0 /\ kind = "none"
  /\ waits = 0 /\ polls = 0 /\ resps = <<>> /\ out = NoOut /\ outcome = "none"

Init == PageInit /\ MergeInit /\ EditInit /\ ScimInit /\ IdInit /\ HookInit /\ ChatInit

Next ==
  \/ RunSchemaTextEffect
  \/ RunSchemaEffect
  \/ RunBothEffects
  \/ OnPick
  \/ RemoveOne
  \/ ClearItems
  \/ SubmitAll
  \/ DetectAnswers
  \/ ScimRead
  \/ SoapRead
  \/ UploadResponds
  \/ UploadQueued
  \/ StartPolling
  \/ WaitElapses
  \/ PollResponds

Spec == Init /\ [][Next]_vars

SpecMerge == Init /\ [][MergeNext]_vars

SpecEdit == Init /\ [][EditNext]_vars

\* effects that are due run: React flushes them after the commit
SpecEditFair ==
  /\ SpecEdit
  /\ WF_vars(RunSchemaTextEffect) /\ WF_vars(RunSchemaEffect) /\ WF_vars(RunBothEffects)

SpecScim == Init /\ [][ScimNext]_vars

SpecId == Init /\ [][IdNext]_vars

SpecHook == Init /\ [][HookNext]_vars

SpecChat == Init /\ [][ChatNext]_vars

(***************************************************************************)
(* Properties of mergeSchemas.                                             *)
(***************************************************************************)
NoDupNames(xs) ==
  \A i, j \in 1..Len(xs) : i # j => xs[i].name # xs[j].name

\* C1: for every input the merged schema has no two entities of the same
\* name and no entity with two attributes of the same name.
C1_MergeNoDuplicates ==
  mMerged.k = "schema" =>
    /\ NoDupNames(mMerged.entities)
    /\ \A i \in 1..Len(mMerged.entities) :
         LET as == mMerged.entities[i].attributes
         IN \A p, q \in 1..Len(as) :
              (p # q /\ as[p].k = "attr" /\ as[q].k = "attr") => as[p].name # as[q].name

(***************************************************************************)
(* Properties of the job submission orchestrator (specification Spec).     *)
(***************************************************************************)
Last(xs) == xs[Len(xs)]
CallEnded == outcome \in {"returned", "threw"}
AsyncCall == kind = "generic"

\* the items of the list that the call submitted
InBatch(it) == it.id \in Ids(batch)

\* pc = "idle" exactly when no call is running, and a running call holds the flag
CallStateOK ==
  /\ (pc = "idle") <=> (outcome # "running")
  /\ pc # "idle" => submitting
  /\ \A i, j \in 1..Len(items) : i # j => items[i].file # items[j].file

\* C2: when a call on the async path has ended, every item of the batch is
\* done, or every item is error with the failure message; none is left
\* uploading or processing.
C2_AsyncEndsAllDoneOrAllError ==
  (AsyncCall /\ CallEnded) =>
    \/ \A i \in 1..Len(items) : InBatch(items[i]) => items[i].status = "done"
    \/ /\ out # NoOut /\ ~out.ok
       /\ \A i \in 1..Len(items) :
            InBatch(items[i]) =>
              items[i].status = "error" /\ items[i].message = out.error

\* C3: an item whose status is error or done keeps that status in every step
\* after which it is still in the list.
C3_TerminalStatusStable ==
  [][\A i \in 1..Len(items) :
       items[i].status \in {"error", "done"} =>
         \A j \in 1..Len(items') :
           items'[j].id = items[i].id => items'[j].status = items[i].status]_vars

\* C4: after a poll response without a result (no content, or an OK reply
\* without a result payload) that is not the last of the schedule, the call
\* is still running and goes on to the next wait and poll.
C4_NoResultResponseIsPending ==
  (AsyncCall /\ resps # <<>> /\ Last(resps) \in {"noContent", "pending"}
     /\ Len(resps) < Len(POLL_DELAYS_MS))
    => (outcome = "running" /\ pc \in {"wait", "poll"})

\* C5: after a poll that failed in transport (non-OK status or network
\* failure) and is not the last of the schedule, the call is still running
\* and the remaining polls are still issued.
C5_PollTransportFailureIsolated ==
  (AsyncCall /\ resps # <<>> /\ Last(resps) \in {"notOk", "network"}
     /\ Len(resps) < Len(POLL_DELAYS_MS))
    => (outcome = "running" /\ pc \in {"wait", "poll"})

\* C6: polling is sequential and bounded by the schedule of 5 delays: every
\* poll follows its wait and the answer to the poll before it, at most one
\* poll is in flight, at most 5 polls are issued, and none is issued after a
\* response that carries a result.
C6_PollingSequentialBounded ==
  /\ Len(POLL_DELAYS_MS) = 5
  /\ polls <= Len(POLL_DELAYS_MS)
  /\ waits = polls
  /\ Len(resps) <= polls /\ polls - Len(resps) <= 1
  /\ (polls - Len(resps) = 1) <=> (pc = "poll")
  /\ pc = "wait" => (polls = pollI /\ Len(resps) = pollI)
  /\ pc = "poll" => polls = pollI + 1
  /\ \A i \in 1..Len(resps) :
       resps[i] = "result" => (i = Len(resps) /\ pc = "idle")

C6_Witness ==
  /\ polls = 5 /\ Len(resps) = 5 /\ resps[5] = "result"
  /\ \A i \in 1..4 : resps[i] = "pending"

\* C7: when every poll of the call was answered pending (no content, or an
\* OK reply without a result), the call ends with "No result within polling
\* window" and every item of the batch is error with that message.
C7_AllPendingEndsNoResult ==
  (AsyncCall /\ CallEnded /\ resps # <<>>
     /\ \A i \in 1..Len(resps) : resps[i] \in {"noContent", "pending"})
    => /\ Len(resps) = Len(POLL_DELAYS_MS)
       /\ outcome = "returned"
       /\ out = [ok |-> FALSE, error |-> NoResultMsg]
       /\ \A i \in 1..Len(items) :
            InBatch(items[i]) =>
              items[i].status = "error" /\ items[i].message = NoResultMsg

\* What holds of the code for C7: when every poll was answered by an OK reply
\* without a result, the call ends with "No result within polling window"
\* after the 5 polls and every item of the batch is error with that message.
ExhaustionOnPendingReplies ==
  (AsyncCall /\ CallEnded /\ resps # <<>>
     /\ \A i \in 1..Len(resps) : resps[i] = "pending")
    => /\ Len(resps) = Len(POLL_DELAYS_MS)
       /\ outcome = "returned"
       /\ out = [ok |-> FALSE, error |-> NoResultMsg]
       /\ schemaText = Raw(NoResultMsg)
       /\ ~submitting
       /\ \A i \in 1..Len(items) :
            items[i].status = "error" /\ items[i].message = NoResultMsg

\* C8: no wait of the schedule starts and no poll is issued before every
\* upload of the batch has settled as processing or error, and every file of
\* the batch has its upload issued whatever the siblings' uploads answer.
C8_AllSettleBarrier ==
  /\ (pc \in {"wait", "poll"} \/ waits > 0 \/ polls > 0) =>
       \A i \in 1..Len(batch) : upload[i] \in {"accepted", "failed"}
  /\ pc \in {"wait", "poll"} =>
       \A j \in 1..Len(items) :
         InBatch(items[j]) => items[j].status \in {"processing", "error"}
  /\ pc \in {"upload", "wait", "poll"} =>
       /\ Len(upload) = Len(batch)
       /\ \A j \in 1..Len(items) : InBatch(items[j]) => items[j].status # "pending"

C8_Witness ==
  /\ pc = "wait" /\ waits = 0
  /\ \E i, j \in 1..Len(batch) : upload[i] = "failed" /\ upload[j] = "accepted"

\* C9: while the uploads run and until the polling ends, the status of each
\* item of the batch is the one its own upload gives it: uploading while the
\* upload is in flight, processing once accepted, error once failed; an item
\* that is not of the batch stays pending.
C9_StatusFollowsOwnUpload ==
  pc \in {"upload", "wait", "poll"} =>
    \A j \in 1..Len(items) :
      /\ ~InBatch(items[j]) => items[j].status = "pending"
      /\ \A i \in 1..Len(batch) :
           batch[i].id = items[j].id =>
             CASE upload[i] \in {"fetch", "json"} ->
                    items[j].status = "uploading" /\ items[j].message = NoMessage
               [] upload[i] = "accepted" ->
                    items[j].status = "processing" /\ items[j].message = "Queued"
               [] OTHER ->
                    /\ items[j].status = "error"
                    /\ items[j].message \in {HttpError, "Network error"}

C9_Witness ==
  /\ pc = "upload"
  /\ \E i, j \in 1..Len(items) :
       /\ InBatch(items[i]) /\ InBatch(items[j])
       /\ items[i].status = "error" /\ items[j].status = "uploading"
  /\ \E i \in 1..Len(batch) : upload[i] = "failed"

\* C10: when the result payload of the poll is text that is not JSON, the
\* call does not throw, the schema text is that text, and once the effect has
\* run the parse-error indicator is set.
C10_NonJsonResultShownVerbatim ==
  (AsyncCall /\ CallEnded /\ out # NoOut /\ out.ok /\ out.result.k = "raw") =>
    /\ outcome = "returned"
    /\ schemaText = out.result
    /\ EffectsDone => parseError # NoError

(***************************************************************************)
(* Properties of the schema editor (SpecEdit).  op is the last handler     *)
(* call, before the schema it started from; both stay while the two        *)
(* effects carry the new schema to the text and back.                      *)
(***************************************************************************)
Ran(name) == op.name = name /\ op.result = "set"
AttrsOf(v, ei) == v.entities[ei + 1].attributes
Keys(as) == {i \in 1..Len(as) : as[i].IsKey}
Without(r, f) == [g \in (DOMAIN r) \ {f} |-> r[g]]

\* C11: after toggleKey has run on an entity at most one of its attributes
\* is a key, and after toggleKey(ei, ai, true) attribute ai is the only key.
C11_ToggleKeyAtMostOneKey ==
  Ran("toggleKey") =>
    LET as == AttrsOf(schema, op.ei)
    IN /\ Cardinality(Keys(as)) <= 1
       /\ (op.flag /\ InRange(as, op.ai)) => Keys(as) = {op.ai + 1}

C11_Witness ==
  /\ Ran("toggleKey") /\ op.flag /\ EffectsDone
  /\ Cardinality(Keys(AttrsOf(before, op.ei))) = 2
  /\ Keys(AttrsOf(schema, op.ei)) = {op.ai + 1}

\* C12: toggleKey(ei, ai, false) leaves the key flag of every attribute of
\* the entity other than ai as it was.
C12_ToggleOffClearsOnlyOne ==
  (Ran("toggleKey") /\ ~op.flag) =>
    \A j \in 1..Len(AttrsOf(before, op.ei)) :
      j # op.ai + 1 =>
        AttrsOf(schema, op.ei)[j].IsKey = AttrsOf(before, op.ei)[j].IsKey

\* C13: in every state every entity of the schema has at most one attribute
\* whose key flag is true.
C13_AtMostOneKeyPerEntity ==
  schema # Null =>
    \A e \in 1..Len(schema.entities) :
      Cardinality(Keys(schema.entities[e].attributes)) <= 1

\* C14: addAttribute and removeAttribute on an entity whose attribute names
\* are pairwise distinct leave them pairwise distinct.
C14_AttributeNamesStayUnique ==
  ((Ran("addAttribute") \/ Ran("removeAttribute"))
     /\ NoDupNames(AttrsOf(before, op.ei))) =>
    NoDupNames(AttrsOf(schema, op.ei))

\* the name the claim gives an added entity: "Entity", or "Entity k" for the
\* smallest k >= 2 not in use
EntitiesBefore == IF before = Null THEN <<>> ELSE before.entities
NamesIn(es) == {es[i].name : i \in 1..Len(es)}
SmallestFreeName(names) ==
  IF "Entity" \notin names THEN "Entity"
  ELSE LET k == CHOOSE n \in 2..(Cardinality(names) + 2) :
                  /\ Numbered("Entity", n) \notin names
                  /\ \A m \in 2..(n - 1) : Numbered("Entity", m) \in names
       IN Numbered("Entity", k)

\* C15: addEntity and removeEntity on a schema (or no schema) whose entity
\* names are pairwise distinct leave them pairwise distinct; the added entity
\* is the last one, is named "Entity" or "Entity k" for the smallest k >= 2
\* not in use, and has the key attribute id as its only attribute.
C15_EntityNamesStayUnique ==
  ((Ran("addEntity") \/ Ran("removeEntity")) /\ NoDupNames(EntitiesBefore)) =>
    /\ NoDupNames(schema.entities)
    /\ Ran("addEntity") =>
         /\ Len(schema.entities) = Len(EntitiesBefore) + 1
         /\ Last(schema.entities) =
              Ent(SmallestFreeName(NamesIn(EntitiesBefore)),
                  <<Attr("id", "String", FALSE, TRUE)>>)

C15_Witness ==
  /\ Ran("addEntity") /\ EffectsDone
  /\ Last(schema.entities).name = "Entity 2"
  /\ {"Entity", "Entity 3"} \subseteq NamesIn(EntitiesBefore)

\* C16: whenever there is a schema the selected index is 0 if it has no
\* entities and an index of its entity list otherwise.
C16_SelectedIndexInBounds ==
  schema # Null =>
    IF Len(schema.entities) = 0 THEN selectedEntity = 0
    ELSE selectedEntity >= 0 /\ selectedEntity < Len(schema.entities)

C16_Witness ==
  /\ Ran("removeEntity")
  /\ Len(before.entities) = 3 /\ op.ei = 2
  /\ selectedEntity = 1

\* C17: removeEntity(i) with i < 0 or i >= entityCount returns without
\* raising and leaves the schema, the selected index and the schema text
\* unchanged.
C17_RemoveEntityOutOfRangeNoOp ==
  [][(edits' = edits + 1 /\ op'.name = "removeEntity" /\ schema # Null
        /\ (op'.ei < 0 \/ op'.ei >= Len(schema.entities))) =>
       /\ op'.result = "return"
       /\ UNCHANGED <<schema, selectedEntity, schemaText, parseError>>]_vars

C17_Witness ==
  /\ op.name = "removeEntity" /\ op.result = "return"
  /\ before # Null /\ Len(before.entities) > 0
  /\ op.ei = Len(before.entities)
  /\ schema = before

\* C18: updateEntityName with an empty or whitespace-only name leaves the
\* entity named "Entity", and updateAttrName with an empty name leaves the
\* attribute named "field".
Blank(t) == t \in {"", "  "}
C18_RenameNeverBlank ==
  /\ (Ran("updateEntityName") /\ Blank(op.text)) =>
       schema.entities[op.ei + 1].name = "Entity"
  /\ (Ran("updateAttrName") /\ op.text = "") =>
       AttrsOf(schema, op.ei)[op.ai + 1].name = "field"

EditOps ==
  {"updateEntityName", "addAttribute", "addEntity", "removeEntity",
   "removeAttribute", "updateAttrName", "updateAttrType", "updateAttrMV",
   "toggleKey"}

\* C19: an edit operation leaves the schema object it started from as it
\* was: what that object holds afterwards is the value it had before.
C19_EditsWorkOnCopy ==
  (op.name \in EditOps /\ op.result = "set") => held = before

C19_Witness ==
  /\ Ran("toggleKey") /\ before # Null
  /\ schema # before
  /\ held = before

\* C20: addAttribute appends at the end, removeAttribute(ei, ai) removes
\* exactly the attribute at index ai, the rename, type, multi-value and key
\* edits keep every attribute at its position, and all of this still holds
\* after the schema has gone to the text and back.
EditedField ==
  CASE op.name = "updateAttrName" -> "name"
    [] op.name = "updateAttrType" -> "type"
    [] op.name = "updateAttrMV" -> "MultiValue"
    [] OTHER -> "IsKey"

C20_AttributeOrderKept ==
  (op.name \in {"addAttribute", "removeAttribute", "updateAttrName",
                "updateAttrType", "updateAttrMV", "toggleKey"}
     /\ op.result = "set") =>
    LET old == AttrsOf(before, op.ei)
        new == AttrsOf(schema, op.ei)
    IN /\ \A e \in 1..Len(before.entities) :
            e # op.ei + 1 => schema.entities[e] = before.entities[e]
       /\ Len(schema.entities) = Len(before.entities)
       /\ CASE op.name = "addAttribute" ->
                 /\ Len(new) = Len(old) + 1
                 /\ \A j \in 1..Len(old) : new[j] = old[j]
                 /\ new[Len(new)].name = "new_field"
            [] op.name = "removeAttribute" ->
                 InRange(old, op.ai) =>
                   /\ Len(new) = Len(old) - 1
                   /\ \A j \in 1..Len(new) :
                        new[j] = IF j <= op.ai THEN old[j] ELSE old[j + 1]
            [] OTHER ->
                 /\ Len(new) = Len(old)
                 /\ \A j \in 1..Len(old) :
                      /\ Without(new[j], EditedField) = Without(old[j], EditedField)
                      /\ (op.name # "toggleKey" /\ j # op.ai + 1) => new[j] = old[j]

C20_Witness ==
  /\ Ran("removeAttribute") /\ op.ai = 0
  /\ Len(AttrsOf(before, op.ei)) = 2
  /\ EffectsDone /\ schemaText = SchemaToText(schema)
  /\ AttrsOf(schema, op.ei) = <<AttrsOf(before, op.ei)[2]>>

\* the key flag the claim gives a loaded attribute
KeyFlagOf(a) ==
  IF "IsKey" \in DOMAIN a THEN a.IsKey
  ELSE IF "isKey" \in DOMAIN a THEN a.isKey
  ELSE FALSE
AllAttrs(v, P(_)) ==
  \A e \in 1..Len(v.entities) :
    \A i \in 1..Len(v.entities[e].attributes) : P(v.entities[e].attributes[i])
Canonical(a) == "IsKey" \in DOMAIN a /\ a.IsKey \in BOOLEAN /\ "isKey" \notin DOMAIN a

\* C21: every attribute of the model has a boolean IsKey and no isKey, and
\* so has every attribute of the serialized text, which is the text shown
\* once the effects have run; once a typed text has been loaded, that IsKey is the text's IsKey if present, else its isKey if
\* present, else false.
C21_KeyFlagNormalized ==
  /\ schema # Null =>
       /\ AllAttrs(schema, Canonical)
       /\ AllAttrs(SchemaToText(schema).v, Canonical)
  /\ (EffectsDone /\ Normalize(schemaText).k = "schema") =>
       AllAttrs(JSONparse(schemaText), Canonical)
  /\ (op.name = "text" /\ ~textEffect /\ Normalize(schemaText).k = "schema") =>
       LET doc == JSONparse(schemaText)
       IN /\ Len(schema.entities) = Len(doc.entities)
          /\ \A e \in 1..Len(doc.entities) :
               /\ Len(schema.entities[e].attributes) = Len(doc.entities[e].attributes)
               /\ \A i \in 1..Len(doc.entities[e].attributes) :
                    schema.entities[e].attributes[i].IsKey =
                      KeyFlagOf(doc.entities[e].attributes[i])

C21_Witness ==
  /\ op.name = "text" /\ ~textEffect /\ schemaEffect
  /\ schemaText = JsonText(DocThree, FALSE)
  /\ schema.entities[3].attributes[1].IsKey = FALSE
  /\ schema.entities[3].attributes[2].IsKey = TRUE
  /\ schema.entities[1].attributes[1].IsKey = FALSE

(***************************************************************************)
(* Further properties of mergeSchemas (SpecMerge).                         *)
(***************************************************************************)
\* the entities mergeSchemas visits, in the order it visits them
RECURSIVE EntitiesIn(_, _)
EntitiesIn(docs, i) ==
  IF i > Len(docs) THEN <<>>
  ELSE SelectSeq(docs[i].entities, isEnt) \o EntitiesIn(docs, i + 1)
Occs == EntitiesIn(DocsOf(mInput), 1)

Named(a) == a.k = "attr"
NamedAttrs(as) == SelectSeq(as, Named)
Defines(e, n, a) ==
  e.name = n /\ \E i \in 1..Len(e.attributes) :
                  Named(e.attributes[i]) /\ e.attributes[i].name = a
\* the first attribute named a of a list that has one
FirstNamed(as, a) ==
  as[CHOOSE i \in 1..Len(as) :
       /\ Named(as[i]) /\ as[i].name = a
       /\ \A j \in 1..(i - 1) : ~(Named(as[j]) /\ as[j].name = a)]
\* the first visited entity that defines attribute a of entity n
FirstDefining(n, a) ==
  Occs[CHOOSE i \in 1..Len(Occs) :
         /\ Defines(Occs[i], n, a)
         /\ \A j \in 1..(i - 1) : ~Defines(Occs[j], n, a)]

\* C22: an attribute of the merged schema is the definition of the earliest
\* document that defines that attribute of that entity: the first attribute
\* of that name is the earliest definition, and no attribute of that name
\* comes from a later definition.
C22_FirstDefinitionWins ==
  mMerged.k = "schema" =>
    \A e \in 1..Len(mMerged.entities) :
      LET ent == mMerged.entities[e]
      IN \A i \in 1..Len(ent.attributes) :
           Named(ent.attributes[i]) =>
             LET a == ent.attributes[i].name
                 first == FirstDefining(ent.name, a)
             IN /\ FirstNamed(ent.attributes, a) = FirstNamed(first.attributes, a)
                /\ \E j \in 1..Len(first.attributes) :
                     first.attributes[j] = ent.attributes[i]

C22_Witness ==
  /\ mMerged.k = "schema"
  /\ Len(DocsOf(mInput)) = 2
  /\ Len(Occs) = 2
  /\ Occs[1] = Ent("User", <<Attr("id", "String", FALSE, TRUE)>>)
  /\ Occs[2] = Ent("User", <<Attr("id", "Int", FALSE, FALSE)>>)
  /\ mMerged.entities = <<Occs[1]>>

\* C23: for every schema document S, mergeSchemas([S, S]) equals S.
C23_MergeIdempotent ==
  (mInput.k = "array" /\ Len(mInput.items) = 2
     /\ isSchema(mInput.items[1]) /\ mInput.items[1] = mInput.items[2]) =>
    mMerged = mInput.items[1]

\* a document with a name and a version whose entities are entities of
\* distinct names and whose attributes are all attributes
WellFormed(S) ==
  /\ isSchema(S) /\ S.name # "" /\ S.version # ""
  /\ \A i \in 1..Len(S.entities) :
       /\ isEnt(S.entities[i])
       /\ \A j \in 1..Len(S.entities[i].attributes) : Named(S.entities[i].attributes[j])
  /\ \A i, j \in 1..Len(S.entities) :
       (isEnt(S.entities[i]) /\ isEnt(S.entities[j]) /\ i # j) =>
         S.entities[i].name # S.entities[j].name

\* mergeSchemas([S, S]) equals S for the documents described above
IdempotentOnWellFormed ==
  (mInput.k = "array" /\ Len(mInput.items) = 2
     /\ WellFormed(mInput.items[1]) /\ mInput.items[1] = mInput.items[2]) =>
    mMerged = mInput.items[1]

RECURSIVE DedupFirst(_)
DedupFirst(xs) ==
  IF Len(xs) = 0 THEN <<>>
  ELSE LET init == DedupFirst(SubSeq(xs, 1, Len(xs) - 1))
           x == xs[Len(xs)]
       IN IF \E i \in 1..Len(init) : init[i] = x THEN init ELSE Append(init, x)
NamesOf(xs) == [i \in 1..Len(xs) |-> xs[i].name]
\* the names of the attributes the visited entities named n define, in order
RECURSIVE AttrNamesFor(_, _)
AttrNamesFor(n, i) ==
  IF i > Len(Occs) THEN <<>>
  ELSE (IF Occs[i].name = n THEN NamesOf(NamedAttrs(Occs[i].attributes)) ELSE <<>>)
         \o AttrNamesFor(n, i + 1)

\* C24: the entities of the merged schema are in the order in which their
\* names are first met, and so are the attribute names of each entity.
C24_FirstIntroductionOrder ==
  mMerged.k = "schema" =>
    /\ NamesOf(mMerged.entities) = DedupFirst(NamesOf(Occs))
    /\ \A e \in 1..Len(mMerged.entities) :
         DedupFirst(NamesOf(NamedAttrs(mMerged.entities[e].attributes))) =
           DedupFirst(AttrNamesFor(mMerged.entities[e].name, 1))

C24_Witness ==
  /\ mMerged.k = "schema"
  /\ Len(DocsOf(mInput)) = 2
  /\ Len(Occs) = 2
  /\ NamesOf(NamedAttrs(Occs[1].attributes)) = <<"id">>
  /\ NamesOf(NamedAttrs(Occs[2].attributes)) = <<"email">>
  /\ Len(mMerged.entities) = 1
  /\ NamesOf(NamedAttrs(mMerged.entities[1].attributes)) = <<"id", "email">>

\* C25: mergeSchemas returns a schema for every input, and a schema without
\* entities when the input holds no schema document.
C25_MergeNeverRaises ==
  /\ mMerged.k = "schema"
  /\ DocsOf(mInput) = <<>> => mMerged.entities = <<>>

\* mergeSchemas moves attribute records as they are (the spread of line 63
\* and the push of line 72 copy references), so a mark put on a record of
\* the input is found on a record of the result exactly when the two are
\* one object.
MarkAttrs(as, d, e) ==
  [i \in 1..Len(as) |->
     IF Named(as[i]) THEN SetField(as[i], "ref", <<d, e, i>>) ELSE as[i]]
MarkDoc(doc, d) ==
  IF ~isSchema(doc) THEN doc
  ELSE [doc EXCEPT !.entities =
          [e \in 1..Len(@) |->
             IF isEnt(@[e]) THEN [@[e] EXCEPT !.attributes = MarkAttrs(@, d, e)]
             ELSE @[e]]]
Marked(input) ==
  IF input.k = "array"
  THEN Arr([d \in 1..Len(input.items) |-> MarkDoc(input.items[d], d)])
  ELSE MarkDoc(input, 0)

\* C26: no attribute record of the result is an attribute record of an
\* input document.
C26_MergeSharesNothing ==
  mMerged.k = "schema" =>
    LET r == mergeSchemas(Marked(mInput))
    IN \A e \in 1..Len(r.entities) :
         \A i \in 1..Len(r.entities[e].attributes) :
           "ref" \notin DOMAIN r.entities[e].attributes[i]

(***************************************************************************)
(* The result of a submission and the edit model (SpecEdit).               *)
(***************************************************************************)
\* C27: once the result of a submission has been set and the effects have
\* run, the edit model is the normalized result and nothing else.
C27_LastSubmissionWins ==
  (op.name = "result" /\ EffectsDone) => schema = Normalize(op.text)

(***************************************************************************)
(* Properties of readScimDocs (SpecScim).                                  *)
(***************************************************************************)
InSeq(x, xs) == \E i \in 1..Len(xs) : xs[i] = x
\* the documents of the batch that readScimDocs parses
Parsed(f) == JSONparse(readTextHead(f))
IsEnvelope(j) == isArray(Get(j, "Resources"))

\* C28: of every envelope { Resources: [...] } read from the batch, each
\* member that carries attributes is among the schemas and each member that
\* carries schema or schemaExtensions is among the resource types.
C28_EnvelopePartitioned ==
  \A i \in 1..Len(sFiles) :
    (EndsWithJson(sFiles[i]) /\ IsEnvelope(Parsed(sFiles[i]))) =>
      LET members == Parsed(sFiles[i]).Resources.items
      IN \A m \in 1..Len(members) :
           /\ IsTruthy(Get(members[m], "attributes")) => InSeq(members[m], sDocs.schemas)
           /\ IsRtPart(members[m]) => InSeq(members[m], sDocs.resourceTypes)

Corrupt(f) == Parsed(f).k = "SyntaxError"
Sound(f) == ~Corrupt(f)

\* C29: readScimDocs returns for a batch with files that are not valid JSON,
\* and returns what it returns for the batch without those files.
C29_CorruptFileSkipped ==
  /\ sDocs.k = "docs"
  /\ sDocs = readScimDocs(SelectSeq(sFiles, Sound))

C29_Witness ==
  /\ Len(sFiles) = 3
  /\ sFiles[1] = File(".json", JsonText(SchemaRes, FALSE), FALSE)
  /\ sFiles[2] = File(".json", Raw("{oops"), FALSE)
  /\ sFiles[3] = File(".json", JsonText(ResType, FALSE), FALSE)
  /\ sDocs = Docs(<<SchemaRes>>, <<ResType>>)

(***************************************************************************)
(* Properties of id30Base62 (SpecId).                                      *)
(***************************************************************************)
\* the bytes the call has read from buf so far, in order
Consumed ==
  IF idFills = 0 THEN <<>>
  ELSE [p \in 1..((idFills - 1) * BufLength + idI) |-> ByteAt(idSrc, p - 1)]
Below248(v) == v < 248
SymbolsOf(bytes) ==
  LET kept == SelectSeq(bytes, Below248)
  IN [p \in 1..Len(kept) |-> ALPHABET[(kept[p] % 62) + 1]]
Symbols == {ALPHABET[s] : s \in 1..Len(ALPHABET)}

\* C30: a call of id30Base62 that returns has collected exactly 30 symbols
\* of the 62-character alphabet; at every step the symbols collected are
\* ALPHABET[v mod 62] of the bytes v < 248 read so far, in their order, and
\* each of the 62 symbols is the symbol of exactly 4 accepted byte values.
C30_ThirtySymbolsUnbiased ==
  /\ Cardinality(Symbols) = 62
  /\ \A c \in Symbols :
       Cardinality({v \in 0..255 : Accepts(v) /\ SymbolOf(v) = c}) = 4
  /\ Cardinality({v \in 0..255 : Accepts(v)}) = 248
  /\ idOut = SymbolsOf(Consumed)
  /\ Len(idOut) <= 30
  /\ idPc = "returned" => Len(idOut) = 30

C30_Witness ==
  /\ idPc = "returned"
  /\ idSrc = <<255, 255, 0>>
  /\ idFills = 2
  /\ Len(idOut) = 30
  /\ \A p \in 1..30 : idOut[p] = "0"

(***************************************************************************)
(* The end of a submission (Spec).                                         *)
(***************************************************************************)
\* C33: when a call of submitAll has ended, by returning or by throwing,
\* on whatever path, the submitting flag is false again.
C33_SubmittingReset ==
  CallEnded => ~submitting

\* C34: a call on the scim path ends with the schema text set or with no
\* item of its batch left in status pending.
C34_ScimBatchReachesOutcome ==
  [][(pc = "scim" /\ pc' = "idle") =>
       \/ schemaText' # schemaText
       \/ \A i \in 1..Len(items') : InBatch(items'[i]) => items'[i].status # "pending"]_vars

\* C38: when a call has ended, every item that was not part of its batch
\* has status pending.
C38_OutcomeMarksOnlySubmitted ==
  CallEnded =>
    \A i \in 1..Len(items) : ~InBatch(items[i]) => items[i].status = "pending"

(***************************************************************************)
(* Edit operations on missing indices, text that does not load, and the    *)
(* settling of the two effects (SpecEdit).                                 *)
(***************************************************************************)
EntityOps == {"updateEntityName", "addAttribute", "removeEntity"}
AttrOps == {"removeAttribute", "updateAttrName", "updateAttrType", "updateAttrMV",
            "toggleKey"}
\* the last call was addressed at an entity or an attribute that the schema
\* it started on does not have
MissingIndex ==
  /\ op.name \in EntityOps \cup AttrOps
  /\ before # Null
  /\ \/ ~InRange(before.entities, op.ei)
     \/ op.name \in AttrOps /\ ~InRange(AttrsOf(before, op.ei), op.ai)

\* C37: an edit operation addressed at an entity or attribute index that
\* does not exist raises no error and leaves the schema as it was.
C37_MissingIndexNoOp ==
  MissingIndex => (op.result # "TypeError" /\ schema = before)

\* the text effect runs in this step
TextEffectRuns == textEffect /\ edits' = edits /\ op' = op
Unloadable(text) ==
  LET obj == JSONparse(text) IN obj = SyntaxError \/ ~isSchema(obj)

\* C36: when the text effect runs on text that is not JSON or has no
\* entities array, the model and the selected index stay and the parse
\* error is set; when it runs on empty or blank text, the model is cleared
\* and the parse error is reset.
C36_BadTextKeepsModel ==
  [][TextEffectRuns =>
       IF schemaText \in {Raw(""), BlankText}
       THEN schema' = Null /\ parseError' = NoError
       ELSE Unloadable(schemaText) =>
              /\ schema' = schema /\ selectedEntity' = selectedEntity
              /\ parseError' # NoError]_vars

C36_Witness ==
  /\ op.name = "text" /\ EffectsDone
  /\ schemaText = Raw("{oops")
  /\ schema # Null /\ parseError # NoError

\* the text shown is the serialization of the model, unless the text is one
\* that did not load
InSync == (schema # Null /\ parseError = NoError) => schemaText = SchemaToText(schema)

\* C35: after every edit operation, text change or upload result the two
\* effects come to rest, with the text in sync with the model.
C35_SyncSettles ==
  [](op.name # "none" => <>(EffectsDone /\ InSync))

(***************************************************************************)
(* The store of async results (SpecHook).                                  *)
(***************************************************************************)
Polled == handled' = handled + 1 /\ answer'.route = "GET"

\* C31: a GET poll leaves the store as it was, and no request removes an
\* entry from the store.
C31_StoreWrittenByWebhookOnly ==
  [][/\ Polled => store' = store
     /\ \A id \in ResponseIds : store[id] # Undefined => store'[id] # Undefined]_vars

\* C39: once a GET has answered 200 for a responseId, every later GET for
\* that responseId answers 200.
C39_ReadinessStable ==
  [][\A id \in served : (Polled /\ answer'.id = id) => answer'.status = 200]_vars

(***************************************************************************)
(* The chat poll route and the chat page (SpecChat).                       *)
(***************************************************************************)
HasPolled == poll.result.k # "none" /\ poll.configured /\ poll.n8nRes # NetworkError
UpData == JSONparse(poll.n8nRes.body)
UpIsJson == IsOk(poll.n8nRes) /\ IsJsonType(poll.n8nRes.ct) /\ UpData # SyntaxError
UpIsText == IsOk(poll.n8nRes) /\ poll.n8nRes.status # 204 /\ ~IsJsonType(poll.n8nRes.ct)
UpPendingStatus == Get(UpData, "status") = Raw("pending")
UpHasReply == IsText(Get(UpData, "reply"))
\* the upstream answers the route's comment gives as pending, and as complete
UpPending ==
  \/ poll.n8nRes.status = 204
  \/ UpIsJson /\ poll.n8nRes.status # 204 /\ (UpPendingStatus \/ ~UpHasReply)
  \/ UpIsText /\ poll.n8nRes.body = Raw("")
UpReply ==
  IF UpIsJson /\ ~UpPendingStatus /\ UpHasReply THEN UpData.reply
  ELSE IF UpIsText /\ poll.n8nRes.body # Raw("") THEN poll.n8nRes.body
  ELSE Undefined

\* C32: an upstream 204, JSON with status pending, JSON without a string
\* reply and an empty text body make the route answer 204, which pollBackend
\* takes as pending; JSON with a string reply and a non-empty text body make
\* it answer { reply }, which pollBackend takes as complete with that reply.
C32_PollMapping ==
  HasPolled =>
    /\ UpPending => (poll.res = NoContent /\ poll.result.k = "pending")
    /\ (poll.n8nRes.status # 204 /\ UpReply # Undefined) =>
         /\ poll.res = JsonResponse(ReplyBody(UpReply), 200)
         /\ poll.result = [k |-> "reply", reply |-> UpReply]

Replied == hpc = "polling" /\ hpc' = "idle" /\ poll'.result.k = "reply"

\* C40: when the polling of handleSubmit receives a reply, the message list
\* afterwards has a message with that reply.
C40_ReplyNotLost ==
  [][Replied =>
       \E i \in 1..Len(messages') : messages'[i].content = poll'.result.reply]_vars

====
